---- MODULE Spec2Model ----
(***************************************************************************)
(* SecureSupabaseConnector: the secure data-submission pipeline, the       *)
(* field classifier, the schema generator and the audit log.               *)
(*                                                                         *)
(* JavaScript strings are TLA+ strings (TLC evaluates Len, SubSeq, Head,   *)
(* Tail and \o on them), so every regular expression of the source is      *)
(* evaluated on the characters of the text it is tested against.           *)
(***************************************************************************)
EXTENDS Integers, Sequences, FiniteSets, TLC

VARIABLES
    connected,      \* this.connected
    supabaseUrl,    \* this.supabaseUrl
    supabaseKey,    \* this.supabaseKey
    encryptionKey,  \* this.encryptionKey: 0 is null, n > 0 the n-th generated key
    currentUser,    \* this.currentUser
    auditLog,       \* this.auditLog (in memory)
    storedLog,      \* localStorage item 'flexform_security_log' (parsed)
    cryptoOk,       \* window.crypto.subtle is usable in this page
    keysGenerated,  \* number of CryptoKey objects generateKey has produced
    calls,          \* the submitSecureData invocations so far, in call order
    requests,       \* the POST requests issued to the endpoint, in order
    connecting,     \* the connectToSupabase invocation in flight, if any
    invocations,    \* number of connector methods the page has invoked
    input,          \* argument of the function applied; in Spec, the record of
                    \* the form the page submits
    output          \* its result

connVars == <<connected, supabaseUrl, supabaseKey, encryptionKey, currentUser,
              keysGenerated>>
logVars == <<auditLog, storedLog>>
fnVars == <<input, output>>
callVars == <<calls, requests, connecting, invocations>>
vars == <<connected, supabaseUrl, supabaseKey, encryptionKey, currentUser,
          auditLog, storedLog, cryptoOk, keysGenerated, calls, requests,
          connecting, invocations, input, output>>

(***************************************************************************)
(* Characters and strings                                                  *)
(***************************************************************************)
UpperChars == "ABCDEFGHIJKLMNOPQRSTUVWXYZ"
LowerChars == "abcdefghijklmnopqrstuvwxyz"
DigitChars == "0123456789"

At(s, i) == IF i >= 1 /\ i <= Len(s) THEN SubSeq(s, i, i) ELSE ""

InChars(c, chars) == c # "" /\ \E i \in 1..Len(chars) : SubSeq(chars, i, i) = c

IndexIn(c, chars) == CHOOSE i \in 1..Len(chars) : SubSeq(chars, i, i) = c

\* String.prototype.charCodeAt, for the characters of field names.
CharCode(c) ==
    CASE InChars(c, DigitChars) -> 47 + IndexIn(c, DigitChars)
      [] InChars(c, UpperChars) -> 64 + IndexIn(c, UpperChars)
      [] InChars(c, LowerChars) -> 96 + IndexIn(c, LowerChars)
      [] c = "_" -> 95
      [] c = "-" -> 45
      [] c = " " -> 32
      [] OTHER -> 127

LowerChar(c) ==
    IF InChars(c, UpperChars)
    THEN LET i == IndexIn(c, UpperChars) IN SubSeq(LowerChars, i, i)
    ELSE c

RECURSIVE ToLowerCase(_)
ToLowerCase(s) ==
    IF s = "" THEN "" ELSE LowerChar(Head(s)) \o ToLowerCase(Tail(s))

\* pattern.test(s) for a pattern that is a literal text.
Contains(s, p) ==
    \E i \in 1..(Len(s) - Len(p) + 1) : SubSeq(s, i, i + Len(p) - 1) = p

\* pattern.test(s) for /p.*q/ (the text holds no line terminator).
ContainsThen(s, p, q) ==
    \E i \in 1..(Len(s) - Len(p) + 1) :
        /\ SubSeq(s, i, i + Len(p) - 1) = p
        /\ \E j \in (i + Len(p))..(Len(s) - Len(q) + 1) :
               SubSeq(s, j, j + Len(q) - 1) = q

\* pattern.test(s) for /p$/.
EndsWith(s, p) ==
    Len(s) >= Len(p) /\ SubSeq(s, Len(s) - Len(p) + 1, Len(s)) = p

StartsWith(s, p) == Len(s) >= Len(p) /\ SubSeq(s, 1, Len(p)) = p

\* Default comparison of Array.prototype.sort: by code units, a prefix first.
RECURSIVE StrLess(_, _)
StrLess(a, b) ==
    IF b = "" THEN FALSE
    ELSE IF a = "" THEN TRUE
    ELSE IF Head(a) = Head(b) THEN StrLess(Tail(a), Tail(b))
    ELSE CharCode(Head(a)) < CharCode(Head(b))

(***************************************************************************)
(* JavaScript values and objects                                           *)
(* A value is [t, v]: its type and its text (String(value)).  An object is *)
(* the sequence of its own properties [k, v] in property order.            *)
(***************************************************************************)
Str(s) == [t |-> "string", v |-> s]
Num(s) == [t |-> "number", v |-> s]
Bool(b) == [t |-> "boolean", v |-> IF b THEN "true" ELSE "false"]
Null == [t |-> "null", v |-> "null"]

\* ToBoolean(value): the test `value` and `!value` of the source.
Truthy(val) ==
    CASE val.t = "string" -> val.v # ""
      [] val.t = "number" -> val.v \notin {"0", "-0", "NaN"}
      [] val.t = "boolean" -> val.v = "true"
      [] val.t = "null" -> FALSE
      [] OTHER -> TRUE

\* value.toString()
toString(val) == val.v

Keys(obj) == [i \in 1..Len(obj) |-> obj[i].k]

HasKey(obj, key) == \E i \in 1..Len(obj) : obj[i].k = key

Get(obj, key) == obj[CHOOSE i \in 1..Len(obj) : obj[i].k = key].v

\* obj[key] = val: an existing property keeps its place, a new one goes last.
Put(obj, key, val) ==
    IF HasKey(obj, key)
    THEN [i \in 1..Len(obj) |-> IF obj[i].k = key THEN [k |-> key, v |-> val] ELSE obj[i]]
    ELSE Append(obj, [k |-> key, v |-> val])

RECURSIVE QuoteChars(_)
QuoteChars(s) ==
    IF s = "" THEN ""
    ELSE (IF Head(s) = "\"" THEN "\\\""
          ELSE IF Head(s) = "\\" THEN "\\\\"
          ELSE Head(s)) \o QuoteChars(Tail(s))

\* JSON's QuoteJSONString.
Quote(s) == "\"" \o QuoteChars(s) \o "\""

JsonValue(val) == IF val.t = "string" THEN Quote(val.v) ELSE val.v

RECURSIVE JsonMembers(_, _)
JsonMembers(obj, keys) ==
    IF keys = << >> THEN ""
    ELSE LET rest == JsonMembers(obj, Tail(keys))
             k == Head(keys)
         IN  IF ~HasKey(obj, k) THEN rest
             ELSE Quote(k) \o ":" \o JsonValue(Get(obj, k))
                  \o (IF rest = "" THEN "" ELSE "," \o rest)

\* JSON.stringify(obj, keys): the properties named by keys, in the order of keys.
JsonStringifyKeys(obj, keys) == "{" \o JsonMembers(obj, keys) \o "}"

\* JSON.stringify(obj)
JsonStringify(obj) == JsonStringifyKeys(obj, Keys(obj))

(***************************************************************************)
(* FieldSensitivityClassifier                                              *)
(***************************************************************************)
IsDigit(c) == InChars(c, DigitChars)
IsLetter(c) == InChars(c, UpperChars) \/ InChars(c, LowerChars)
IsWordChar(c) == IsDigit(c) \/ IsLetter(c) \/ c = "_"

\* \b between positions i-1 and i of s.
WordBoundary(s, i) == IsWordChar(At(s, i - 1)) # IsWordChar(At(s, i))

\* One character of a fixed-length pattern: d is \d, S is [-.\s], T is [-\s].
ShapeChar(p, c) ==
    CASE p = "d" -> IsDigit(c)
      [] p = "S" -> c \in {"-", ".", " "}
      [] p = "T" -> c \in {"-", " "}
      [] OTHER -> c = p

\* /\b<shape>\b/.test(s)
MatchesShape(s, shape) ==
    \E i \in 1..(Len(s) - Len(shape) + 1) :
        /\ WordBoundary(s, i)
        /\ \A j \in 1..Len(shape) : ShapeChar(At(shape, j), At(s, i + j - 1))
        /\ WordBoundary(s, i + Len(shape))

IsEmailLocalChar(c) == IsLetter(c) \/ IsDigit(c) \/ c \in {".", "_", "%", "+", "-"}
IsEmailDomainChar(c) == IsLetter(c) \/ IsDigit(c) \/ c \in {".", "-"}
IsEmailTldChar(c) == IsLetter(c) \/ c = "|"

\* /\b[A-Za-z0-9._%+-]+@[A-Za-z0-9.-]+\.[A-Z|a-z]{2,}\b/.test(s)
MatchesEmail(s) ==
    \E a \in 1..Len(s) :
        /\ At(s, a) = "@"
        /\ \E b \in 1..(a - 1) :
               /\ WordBoundary(s, b)
               /\ \A i \in b..(a - 1) : IsEmailLocalChar(At(s, i))
        /\ \E d \in (a + 2)..Len(s) :
               /\ At(s, d) = "."
               /\ \A i \in (a + 1)..(d - 1) : IsEmailDomainChar(At(s, i))
               /\ \E e \in (d + 2)..Len(s) :
                      /\ \A i \in (d + 1)..e : IsEmailTldChar(At(s, i))
                      /\ WordBoundary(s, e + 1)

PhoneShapes == {"dddSdddSdddd", "ddddddSdddd", "dddSddddddd", "dddddddddd"}

containsPII(data) ==
    LET dataString == JsonStringify(data)
    IN  \/ MatchesEmail(dataString)
        \/ MatchesShape(dataString, "ddd-dd-dddd")
        \/ \E shape \in PhoneShapes : MatchesShape(dataString, shape)
        \/ MatchesShape(dataString, "ddddTddddTddddTdddd")

matchesRestricted_withoutConfidential(dataString) ==
    \/ Contains(dataString, "proprietary")
    \/ ContainsThen(dataString, "trade", "secret")
    \/ Contains(dataString, "patent")
    \/ ContainsThen(dataString, "intellectual", "property")
    \/ Contains(dataString, "classified")

matchesRestricted(dataString) ==
    \/ Contains(dataString, "proprietary")
    \/ Contains(dataString, "confidential")
    \/ ContainsThen(dataString, "trade", "secret")
    \/ Contains(dataString, "patent")
    \/ ContainsThen(dataString, "intellectual", "property")
    \/ Contains(dataString, "classified")

matchesConfidential(dataString) ==
    \/ ContainsThen(dataString, "social", "security")
    \/ \E p \in {"ssn", "medical", "health", "financial", "salary", "wage",
                 "credit", "bank"} : Contains(dataString, p)

classifyData_piiElevates(data) ==
    LET dataString == ToLowerCase(JsonStringify(data))
    IN  IF matchesRestricted(dataString) THEN "restricted"
        ELSE IF matchesConfidential(dataString) THEN "confidential"
        ELSE IF containsPII(data) THEN "confidential"
        ELSE "internal"

classifyData(data) ==
    LET dataString == ToLowerCase(JsonStringify(data))
    IN  IF matchesRestricted(dataString) THEN "restricted"
        ELSE IF matchesConfidential(dataString) THEN "confidential"
        ELSE IF containsPII(data) THEN "internal"
        ELSE "internal"

isSensitiveField(field) ==
    LET fieldName == ToLowerCase(field.name)
        fieldLabel == ToLowerCase(field.label)
        test(s) ==
            \/ \E p \in {"email", "phone", "ssn", "social", "address", "dob",
                         "birth", "medical", "salary", "wage", "income",
                         "credit", "password"} : Contains(s, p)
            \/ EndsWith(s, "id")
            \/ EndsWith(s, "name")
    IN  test(fieldName) \/ test(fieldLabel)

(***************************************************************************)
(* IntegrityDigest and FieldCipher                                         *)
(* SHA-256 and AES-GCM are symbolic: a digest is the value [sha256, text   *)
(* hashed], a token the value [aesgcm, plaintext, key].                    *)
(***************************************************************************)
\* hash(data) with this.supabaseUrl = url; ok: crypto.subtle.digest works.
hash(data, url, ok) ==
    IF ok THEN [t |-> "sha256", v |-> data \o "salt-" \o url] ELSE Str(data)

encrypt_emptyOnFailure(data, key, ok) ==
    IF ok /\ key # 0 THEN [t |-> "aesgcm", v |-> data, key |-> key] ELSE Str("")

\* The result of encrypt(data) once a key was looked for: key is the
\* this.encryptionKey handed to crypto.subtle.encrypt (0: null).
encrypt(data, key, ok) ==
    IF ok /\ key # 0 THEN [t |-> "aesgcm", v |-> data, key |-> key] ELSE Str(data)

RECURSIVE SortInsert(_, _)
SortInsert(sorted, key) ==
    IF sorted = << >> THEN <<key>>
    ELSE IF StrLess(key, Head(sorted)) THEN <<key>> \o sorted
    ELSE <<Head(sorted)>> \o SortInsert(Tail(sorted), key)

\* Array.prototype.sort() on an array of distinct strings.
RECURSIVE sort(_)
sort(keys) ==
    IF keys = << >> THEN << >> ELSE SortInsert(sort(Tail(keys)), Head(keys))

generateDataHash_unsorted(data, url, ok) == hash(JsonStringify(data), url, ok)

generateDataHash(data, url, ok) ==
    hash(JsonStringifyKeys(data, sort(Keys(data))), url, ok)

(***************************************************************************)
(* AuditTrail                                                              *)
(***************************************************************************)
MaxStoredEntries == 1000

\* this.currentUser?.email || 'anonymous'
userOf(user) == IF user.email # "" THEN user.email ELSE "anonymous"

NoUser == [email |-> "", role |-> ""]

\* The entry logSecurityEvent builds; timestamp is the logical time of the
\* connector: the number of events it has logged before, plus one.
logEntry(event, details, user, log) ==
    [timestamp |-> Len(log) + 1, event |-> event, user |-> userOf(user),
     ip |-> "client-ip-protected", details |-> details]

storeEntry_keepFirst(existingLogs, entry) ==
    LET pushed == Append(existingLogs, entry)
    IN  IF Len(pushed) > MaxStoredEntries
        THEN SubSeq(pushed, 1, MaxStoredEntries)
        ELSE pushed

\* existingLogs.push(logEntry), then the splice that keeps the last 1000.
storeEntry(existingLogs, entry) ==
    LET pushed == Append(existingLogs, entry)
    IN  IF Len(pushed) > MaxStoredEntries
        THEN SubSeq(pushed, Len(pushed) - MaxStoredEntries + 1, Len(pushed))
        ELSE pushed

\* The logs after logSecurityEvent ran once for each of events, in order.
RECURSIVE logged(_, _, _)
logged(logs, events, user) ==
    IF events = << >> THEN logs
    ELSE LET entry == logEntry(Head(events).event, Head(events).details, user,
                               logs.auditLog)
         IN  logged([auditLog |-> Append(logs.auditLog, entry),
                     storedLog |-> storeEntry(logs.storedLog, entry)],
                    Tail(events), user)

\* logSecurityEvent called once for each of events while this.currentUser = user.
logSecurityEvents(events, user) ==
    LET after == logged([auditLog |-> auditLog, storedLog |-> storedLog],
                        events, user)
    IN  /\ auditLog' = after.auditLog
        /\ storedLog' = after.storedLog

(***************************************************************************)
(* SchemaPolicyGenerator                                                   *)
(* SQL text is the sequence of its lines.                                  *)
(***************************************************************************)
RECURSIVE ReplaceNonWord(_)
ReplaceNonWord(name) ==
    IF name = "" THEN ""
    ELSE (IF IsWordChar(Head(name)) THEN Head(name) ELSE "_")
         \o ReplaceNonWord(Tail(name))

sanitizeColumnName_prefixesAlways(name) ==
    ToLowerCase("_" \o ReplaceNonWord(name))

sanitizeColumnName(name) ==
    LET replaced == ReplaceNonWord(name)
        prefixed == IF IsDigit(At(replaced, 1)) THEN "_" \o replaced ELSE replaced
    IN  ToLowerCase(prefixed)

mapFieldTypeToPostgreSQL(fieldType) ==
    CASE fieldType \in {"text", "email", "textarea", "select", "radio", "file",
                        "tel", "url", "month", "week"} -> "TEXT"
      [] fieldType = "number" -> "NUMERIC"
      [] fieldType = "date" -> "DATE"
      [] fieldType = "datetime-local" -> "TIMESTAMPTZ"
      [] fieldType = "checkbox" -> "BOOLEAN"
      [] fieldType = "time" -> "TIME"
      [] OTHER -> "TEXT"

fieldLines_ignoresOption(field, index, count, options) ==
    LET columnName == sanitizeColumnName(field.name)
        pgType == mapFieldTypeToPostgreSQL(field.type)
        nullable == IF field.required THEN "NOT NULL" ELSE ""
    IN  IF isSensitiveField(field)
        THEN << "    \"" \o columnName \o "_encrypted\" TEXT,",
                "    \"" \o columnName \o "_hash\" TEXT," >>
        ELSE << "    \"" \o columnName \o "\" " \o pgType \o " " \o nullable
                \o (IF index < count - 1 \/ options.enableAuditLog THEN "," ELSE "") >>

\* The lines one field adds to the CREATE TABLE statement (the forEach body).
fieldLines(field, index, count, options) ==
    LET columnName == sanitizeColumnName(field.name)
        pgType == mapFieldTypeToPostgreSQL(field.type)
        nullable == IF field.required THEN "NOT NULL" ELSE ""
    IN  IF options.enableEncryption /\ isSensitiveField(field)
        THEN << "    \"" \o columnName \o "_encrypted\" TEXT,",
                "    \"" \o columnName \o "_hash\" TEXT," >>
        ELSE << "    \"" \o columnName \o "\" " \o pgType \o " " \o nullable
                \o (IF index < count - 1 \/ options.enableAuditLog THEN "," ELSE "") >>

RECURSIVE allFieldLines(_, _, _)
allFieldLines(fields, from, options) ==
    IF from > Len(fields) THEN << >>
    ELSE fieldLines(fields[from], from - 1, Len(fields), options)
         \o allFieldLines(fields, from + 1, options)

generateSecureTableSchema(tableName, fields, options) ==
    LET header ==
            << "-- Create secure table: " \o tableName,
               "CREATE TABLE IF NOT EXISTS \"" \o tableName \o "\" (",
               "    id BIGSERIAL PRIMARY KEY,",
               "    created_at TIMESTAMPTZ DEFAULT NOW(),",
               "    updated_at TIMESTAMPTZ DEFAULT NOW(),",
               "    created_by TEXT DEFAULT auth.email()," >>
        department ==
            IF options.departmentLevel
            THEN << "    department TEXT NOT NULL DEFAULT 'general'," >>
            ELSE << >>
        fixed ==
            << "    security_classification TEXT DEFAULT '" \o options.accessLevel \o "',",
               "    data_hash TEXT," >>
        audit ==
            IF options.enableAuditLog
            THEN << "    audit_log JSONB DEFAULT '[]'::jsonb," >>
            ELSE << >>
        rls ==
            << ");", "", "-- Enable Row Level Security",
               "ALTER TABLE \"" \o tableName \o "\" ENABLE ROW LEVEL SECURITY;",
               "", "-- Performance indexes",
               "CREATE INDEX IF NOT EXISTS idx_" \o tableName \o "_created_at ON \""
                   \o tableName \o "\" (created_at);",
               "CREATE INDEX IF NOT EXISTS idx_" \o tableName \o "_created_by ON \""
                   \o tableName \o "\" (created_by);" >>
        departmentIndex ==
            IF options.departmentLevel
            THEN << "CREATE INDEX IF NOT EXISTS idx_" \o tableName \o "_department ON \""
                        \o tableName \o "\" (department);" >>
            ELSE << >>
    IN  [createTable |-> header \o department \o fixed \o audit
                         \o allFieldLines(fields, 1, options) \o rls \o departmentIndex]

(***************************************************************************)
(* The connector after construction                                        *)
(***************************************************************************)
NotConnecting == [pc |-> "idle", url |-> "", apiKey |-> "", result |-> [state |-> "pending"]]

\* constructor(), a page that holds no stored log and has issued no call.
Constructed ==
    /\ connected = FALSE
    /\ supabaseUrl = ""
    /\ supabaseKey = ""
    /\ encryptionKey = 0
    /\ currentUser = NoUser
    /\ auditLog = << >>
    /\ storedLog = << >>
    /\ keysGenerated = 0
    /\ calls = << >>
    /\ requests = << >>
    /\ connecting = NotConnecting
    /\ invocations = 0

UrlA == "https://acme.supabase.co"

\* The result slot of a function that was not applied yet, and once applied.
Pending == [state |-> "pending"]
Returned(value) == [state |-> "returned", value |-> value]

(***************************************************************************)
(* Specification of classifyData: applied once to a record                 *)
(***************************************************************************)
NoteTexts ==
    { "hello world", "confidential salary data", "patent pending trade secret",
      "secret trade", "salary 100", "Proprietary", "classname", "my bank",
      "john@example.com", "123-45-6789", "my ssn 123-45-6789", "555-123-4567",
      "1234 5678 9012 3456", "intellectual x property", "" }

ClassifyRecords ==
    { << [k |-> "note", v |-> Str(x)] >> : x \in NoteTexts }
    \cup { << [k |-> k1, v |-> Str(x)], [k |-> "secret", v |-> Str(y)] >> :
             k1 \in {"trade", "code"}, x \in NoteTexts, y \in {"hello", "health"} }
    \cup { << [k |-> "amount", v |-> Num("5551234567")] >>,
           << [k |-> "flag", v |-> Bool(TRUE)], [k |-> "none", v |-> Null] >> }

InitClassify ==
    /\ Constructed
    /\ cryptoOk = TRUE
    /\ input \in ClassifyRecords
    /\ output = Pending

ApplyClassify ==
    /\ output = Pending
    /\ output' = Returned(classifyData(input))
    /\ UNCHANGED <<connVars, logVars, cryptoOk, callVars, input>>

SpecClassify == InitClassify /\ [][ApplyClassify]_vars

Note(text) == << [k |-> "note", v |-> Str(text)] >>

\* C6 (as stated): classifyData returns confidential for the note
\* "confidential salary data", restricted for "patent pending trade secret"
\* and internal for "hello world".
C6_AsStated ==
    output.state = "returned" =>
        /\ input = Note("confidential salary data") => output.value = "confidential"
        /\ input = Note("patent pending trade secret") => output.value = "restricted"
        /\ input = Note("hello world") => output.value = "internal"

\* C6 (amended): classifyData returns restricted for the note "confidential
\* salary data" (the word confidential is a restricted pattern), restricted
\* for "patent pending trade secret" and internal for "hello world".
C6_Examples ==
    output.state = "returned" =>
        /\ input = Note("confidential salary data") => output.value = "restricted"
        /\ input = Note("patent pending trade secret") => output.value = "restricted"
        /\ input = Note("hello world") => output.value = "internal"

C6_Witness ==
    /\ output.state = "returned"
    /\ input = Note("confidential salary data")

\* C7: the level classifyData returns is decided by the pattern matches on
\* the lower-cased serialized record alone, restricted before confidential
\* before internal; a record that contains PII gets the level the patterns give.
C7_Precedence ==
    output.state = "returned" =>
        LET text == ToLowerCase(JsonStringify(input))
        IN  /\ matchesRestricted(text) => output.value = "restricted"
            /\ ~matchesRestricted(text) /\ matchesConfidential(text)
                   => output.value = "confidential"
            /\ ~matchesRestricted(text) /\ ~matchesConfidential(text)
                   => output.value = "internal"

\* A record with PII and no pattern match was classified (internal), and so
\* was one in which a restricted and a confidential pattern both match.
C7_Witness ==
    /\ output.state = "returned"
    /\ containsPII(input)
    /\ ~matchesRestricted(ToLowerCase(JsonStringify(input)))
    /\ ~matchesConfidential(ToLowerCase(JsonStringify(input)))

(***************************************************************************)
(* Specification of generateDataHash: applied to two records that hold the *)
(* same properties                                                         *)
(***************************************************************************)
MaxHashKeys == 3
HashKeys == {"zip", "Zip", "a_b", "a"}
HashValues == {Str("x"), Num("1")}

\* r1 with its properties inserted in the order p[1], p[2], ...
Reordered(r1, p) == [i \in 1..Len(r1) |-> r1[p[i]]]

DistinctKeys(r) == \A i, j \in 1..Len(r) : i # j => r[i].k # r[j].k

\* R1: an object of 1..MaxHashKeys properties with distinct keys; R2: the
\* same properties inserted in another order.
InitHash ==
    /\ Constructed
    /\ cryptoOk \in BOOLEAN
    /\ \E n \in 1..MaxHashKeys :
         \E r1 \in [1..n -> [k : HashKeys, v : HashValues]] :
           /\ DistinctKeys(r1)
           /\ \E p \in Permutations(1..n), u \in {"", UrlA} :
                input = [R1 |-> r1, R2 |-> Reordered(r1, p), url |-> u]
    /\ output = Pending

ApplyHash ==
    /\ output = Pending
    /\ output' = Returned([h1 |-> generateDataHash(input.R1, input.url, cryptoOk),
                           h2 |-> generateDataHash(input.R2, input.url, cryptoOk)])
    /\ UNCHANGED <<connVars, logVars, cryptoOk, callVars, input>>

SpecHash == InitHash /\ [][ApplyHash]_vars

\* C5: two records that hold the same key-value pairs in different insertion
\* order have the same generateDataHash under the same endpoint.
C5_OrderIndependent ==
    output.state = "returned" => output.value.h1 = output.value.h2

C5_Witness ==
    /\ output.state = "returned"
    /\ input.R1 # input.R2
    /\ Len(input.R1) = MaxHashKeys
    /\ cryptoOk

(***************************************************************************)
(* Specification of logSecurityEvent: called again and again               *)
(***************************************************************************)
MaxLogCalls == 1002

InitLog ==
    /\ Constructed
    /\ cryptoOk = TRUE
    /\ input = << >>
    /\ output = Pending

CallLogSecurityEvent ==
    /\ Len(auditLog) < MaxLogCalls
    /\ logSecurityEvents(<< [event |-> "EVENT", details |-> << >>] >>, currentUser)
    /\ UNCHANGED <<connVars, cryptoOk, callVars, fnVars>>

SpecLog == InitLog /\ [][CallLogSecurityEvent]_vars

Min(a, b) == IF a < b THEN a ELSE b

\* C10: after any number of logSecurityEvent calls the persisted log holds at
\* most 1000 entries, and they are the last entries logged, in append order:
\* the 1001st call evicts the first entry.
C10_BoundedFifo ==
    LET n == Len(auditLog)
        kept == Len(storedLog)
    IN  /\ kept = Min(n, MaxStoredEntries)
        /\ kept <= 1000
        /\ \A i \in 1..kept : storedLog[i] = auditLog[n - kept + i]

C10_Witness ==
    /\ Len(auditLog) = MaxStoredEntries + 1
    /\ Len(storedLog) = MaxStoredEntries
    /\ storedLog[1].timestamp = 2
    /\ storedLog[MaxStoredEntries].timestamp = MaxStoredEntries + 1

(***************************************************************************)
(* Specification of generateSecureTableSchema: applied once                *)
(***************************************************************************)
MaxFields == 2
FieldNames == {"ssn", "ssn_hash", "note", "1st Choice", "id"}

SchemaFields ==
    { [name |-> n, label |-> l, type |-> ty.type, required |-> ty.required] :
        n \in FieldNames, l \in {"", "Home Address"},
        ty \in { [type |-> "text", required |-> TRUE],
                 [type |-> "checkbox", required |-> FALSE] } }

SchemaOptions ==
    [enableAuditLog : BOOLEAN, enableEncryption : BOOLEAN,
     departmentLevel : BOOLEAN, accessLevel : {"internal"}]

InitSchema ==
    /\ Constructed
    /\ cryptoOk = TRUE
    /\ \E n \in 0..MaxFields :
         \E fs \in [1..n -> SchemaFields], o \in SchemaOptions :
           /\ \A i, j \in 1..n : i # j => fs[i].name # fs[j].name
           /\ input = [tableName |-> "orders", fields |-> fs, options |-> o]
    /\ output = Pending

ApplySchema ==
    /\ output = Pending
    /\ output' = Returned(generateSecureTableSchema(input.tableName, input.fields,
                                                    input.options))
    /\ UNCHANGED <<connVars, logVars, cryptoOk, callVars, input>>

SpecSchema == InitSchema /\ [][ApplySchema]_vars

\* The text defines a column of this name: a line of the column list that
\* starts with the name, quoted (a field's column) or not (a fixed column).
DefinesColumn(lines, name) ==
    \E i \in 1..Len(lines) :
        \/ StartsWith(lines[i], "    \"" \o name \o "\" ")
        \/ StartsWith(lines[i], "    " \o name \o " ")

\* The names a field's columns can take: plain, _encrypted, _hash.
ColumnNames(field) ==
    LET column == sanitizeColumnName(field.name)
    IN  {column, column \o "_encrypted", column \o "_hash"}

FixedColumns ==
    {"id", "created_at", "updated_at", "created_by", "department",
     "security_classification", "data_hash", "audit_log"}

\* No column name of one field is a column name of another field or a fixed column.
DistinctColumns(fields) ==
    /\ \A i \in 1..Len(fields) : ColumnNames(fields[i]) \cap FixedColumns = {}
    /\ \A i, j \in 1..Len(fields) :
           i # j => ColumnNames(fields[i]) \cap ColumnNames(fields[j]) = {}

PlainOrPair(field, lines, options) ==
    LET column == sanitizeColumnName(field.name)
        plain == DefinesColumn(lines, column)
        pair == /\ DefinesColumn(lines, column \o "_encrypted")
                /\ DefinesColumn(lines, column \o "_hash")
    IN  IF options.enableEncryption /\ isSensitiveField(field)
        THEN pair /\ ~plain
        ELSE plain /\ ~pair

\* C8 (as stated): for every field list, the CREATE TABLE text holds for every
\* field either its plain column or its _encrypted and _hash pair, never both:
\* the pair exactly when enableEncryption is on and the field is sensitive.
C8_AsStated ==
    output.state = "returned" =>
        \A i \in 1..Len(input.fields) :
            PlainOrPair(input.fields[i], output.value.createTable, input.options)

\* C8 (amended): the same, for the field lists whose column names stay
\* distinct from each other and from the fixed columns when _encrypted or
\* _hash is appended to them.
C8_PlainOrPair ==
    output.state = "returned" /\ DistinctColumns(input.fields) =>
        \A i \in 1..Len(input.fields) :
            PlainOrPair(input.fields[i], output.value.createTable, input.options)

\* The schema of a sensitive field (ssn) and a plain one, with encryption on.
C8_Witness ==
    /\ output.state = "returned"
    /\ DistinctColumns(input.fields)
    /\ input.options.enableEncryption
    /\ Len(input.fields) = 2
    /\ input.fields[1].name = "ssn"
    /\ ~isSensitiveField(input.fields[2])
    /\ DefinesColumn(output.value.createTable, "ssn_encrypted")
    /\ DefinesColumn(output.value.createTable, "ssn_hash")
    /\ ~DefinesColumn(output.value.createTable, "ssn")

(***************************************************************************)
(* encryptSensitiveData                                                    *)
(* An invocation is a frame: the argument, the object built so far, the    *)
(* position of the loop and the await it is suspended at.                  *)
(*   initializeEncryption: in encrypt, awaiting the key generation         *)
(*   encrypt:              awaiting this.encrypt (key: the key handed to   *)
(*                         crypto.subtle.encrypt)                          *)
(*   hash:                 awaiting this.hash (pending: its result)        *)
(*   returned:             the loop ended                                  *)
(***************************************************************************)
\* this.isSensitiveField({ name: key }) && value, for entry n of data
encryptsEntry(data, n) ==
    isSensitiveField([name |-> data[n].k, label |-> ""]) /\ Truthy(data[n].v)

\* The frame at the call: Object.entries(data) is taken once, so which of
\* the entries the loop encrypts (encrypts) is settled by the argument.
encryptFrame(data) ==
    [data |-> data, encrypts |-> [n \in 1..Len(data) |-> encryptsEntry(data, n)],
     encryptedData |-> << >>, idx |-> 1, pc |-> "run", key |-> 0, pending |-> Null]

\* The first entry from idx on that the loop encrypts; Len(data) + 1 if none.
nextEncrypted(f, idx) ==
    LET found == {n \in idx..Len(f.data) : f.encrypts[n]}
    IN  IF found = {} THEN Len(f.data) + 1
        ELSE CHOOSE n \in found : \A m \in found : n <= m

\* encryptedData[key] = value for the entries from..to of data, in order: a
\* key encryptedData has already keeps its place and takes the value, the
\* other entries go last (the keys of data are distinct).
copyEntries(encryptedData, data, from, to) ==
    [n \in 1..Len(encryptedData) |->
        IF \E m \in from..to : data[m].k = encryptedData[n].k
        THEN data[CHOOSE m \in from..to : data[m].k = encryptedData[n].k]
        ELSE encryptedData[n]]
    \o SelectSeq(SubSeq(data, from, to), LAMBDA e : ~HasKey(encryptedData, e.k))

\* The loop goes on from entry idx with encryptedData as built so far, up to
\* its next await: the entries before the next encrypted one are copied;
\* key is this.encryptionKey.
encryptFrom(f, encryptedData, idx, key) ==
    LET next == nextEncrypted(f, idx)
    IN  [f EXCEPT !.encryptedData = copyEntries(encryptedData, f.data, idx, next - 1),
                  !.idx = next,
                  !.pc = IF next > Len(f.data) THEN "returned"
                         ELSE IF key = 0 THEN "initializeEncryption"
                         ELSE "encrypt",
                  !.key = IF next <= Len(f.data) /\ key # 0 THEN key ELSE @]

\* The loop from its first entry.
encryptLoop(f, key) == encryptFrom(f, f.encryptedData, f.idx, key)

\* encrypt goes on after initializeEncryption; key is this.encryptionKey now.
afterInitializeEncryption(f, key) == [f EXCEPT !.pc = "encrypt", !.key = key]

\* encrypt returned: the token is stored and hash is called (url: this.supabaseUrl).
afterEncrypt(f, url, ok) ==
    LET entry == f.data[f.idx]
    IN  [f EXCEPT !.encryptedData =
                      Put(@, entry.k \o "_encrypted", encrypt(toString(entry.v), f.key, ok)),
                  !.pc = "hash",
                  !.pending = hash(toString(entry.v), url, ok)]

\* hash returned: the digest is stored and the loop goes on.
afterHash(f, key) ==
    LET entry == f.data[f.idx]
    IN  encryptFrom(f, Put(f.encryptedData, entry.k \o "_hash", f.pending),
                    f.idx + 1, key)

\* initializeEncryption completes: a new key when the key generation works.
initializeEncryption ==
    IF cryptoOk
    THEN /\ keysGenerated' = keysGenerated + 1
         /\ encryptionKey' = keysGenerated + 1
    ELSE UNCHANGED <<keysGenerated, encryptionKey>>

(***************************************************************************)
(* Specification of encryptSensitiveData: called once on a new connector   *)
(***************************************************************************)
MaxEncryptFields == 2
EncryptKeys == {"ssn", "ssn_hash", "user_id", "user_id_hash", "note"}
EncryptValues == {Str("5"), Str(""), Num("0"), Null}

InitEncrypt ==
    /\ Constructed
    /\ cryptoOk \in BOOLEAN
    /\ \E n \in 0..MaxEncryptFields :
         \E r \in [1..n -> [k : EncryptKeys, v : EncryptValues]] :
           /\ DistinctKeys(r)
           /\ input = r
    /\ output = Pending

CallEncryptSensitiveData ==
    /\ output = Pending
    /\ output' = Returned(encryptLoop(encryptFrame(input), encryptionKey))
    /\ UNCHANGED <<connVars, logVars, cryptoOk, callVars, input>>

ResumeInitializeEncryption ==
    /\ output.state = "returned"
    /\ output.value.pc = "initializeEncryption"
    /\ initializeEncryption
    /\ output' = Returned(afterInitializeEncryption(output.value, encryptionKey'))
    /\ UNCHANGED <<connected, supabaseUrl, supabaseKey, currentUser, logVars,
                   cryptoOk, callVars, input>>

ResumeEncrypt ==
    /\ output.state = "returned"
    /\ output.value.pc = "encrypt"
    /\ output' = Returned(afterEncrypt(output.value, supabaseUrl, cryptoOk))
    /\ UNCHANGED <<connVars, logVars, cryptoOk, callVars, input>>

ResumeHash ==
    /\ output.state = "returned"
    /\ output.value.pc = "hash"
    /\ output' = Returned(afterHash(output.value, encryptionKey))
    /\ UNCHANGED <<connVars, logVars, cryptoOk, callVars, input>>

NextEncrypt ==
    \/ CallEncryptSensitiveData
    \/ ResumeInitializeEncryption
    \/ ResumeEncrypt
    \/ ResumeHash

SpecEncrypt == InitEncrypt /\ [][NextEncrypt]_vars

\* The two shapes of C9 for one field of the argument.
FieldShape(entry, encryptedData) ==
    IF isSensitiveField([name |-> entry.k, label |-> ""]) /\ Truthy(entry.v)
    THEN /\ HasKey(encryptedData, entry.k \o "_encrypted")
         /\ HasKey(encryptedData, entry.k \o "_hash")
         /\ ~HasKey(encryptedData, entry.k)
    ELSE /\ HasKey(encryptedData, entry.k)
         /\ Get(encryptedData, entry.k) = entry.v

\* The keys the two shapes give a field.
ShapeKeys(entry) ==
    IF isSensitiveField([name |-> entry.k, label |-> ""]) /\ Truthy(entry.v)
    THEN {entry.k \o "_encrypted", entry.k \o "_hash"}
    ELSE {entry.k}

\* C9: encryptSensitiveData gives every field of its argument one of two
\* shapes: a sensitive field with a non-empty value becomes <field>_encrypted
\* and <field>_hash and the key <field> is absent; any other field is copied
\* with its value unchanged; the result has no other keys.
C9_TwoShapes ==
    output.state = "returned" /\ output.value.pc = "returned" =>
        LET encryptedData == output.value.encryptedData
        IN  /\ \A i \in 1..Len(input) : FieldShape(input[i], encryptedData)
            /\ \A j \in 1..Len(encryptedData) :
                   \E i \in 1..Len(input) : encryptedData[j].k \in ShapeKeys(input[i])

(***************************************************************************)
(* submitSecureData                                                        *)
(* A security context is [userEmail, department, role], "" for a property  *)
(* the caller left out.  An invocation is a frame: its arguments, the      *)
(* await it is suspended at (pc) and its locals.  stages lists the stages  *)
(* of the submission state machine it has entered, emitted the audit       *)
(* entries it has logged (event and position in this.auditLog).            *)
(*   encryptSensitiveData: in encryptSensitiveData (transform is its frame)*)
(*   generateDataHash:     awaiting the digest of generateDataHash         *)
(*   fetch:                awaiting the response of the POST               *)
(*   json:                 awaiting response.json()                        *)
(*   done:                 returned to the caller                          *)
(***************************************************************************)
RECURSIVE join(_, _)
join(strings, separator) ==
    IF strings = << >> THEN ""
    ELSE IF Len(strings) = 1 THEN Head(strings)
    ELSE Head(strings) \o separator \o join(Tail(strings), separator)

\* s.trim() === ''
RECURSIVE trimsToEmpty(_)
trimsToEmpty(s) == s = "" \/ (Head(s) = " " /\ trimsToEmpty(Tail(s)))

NoValidation == [isValid |-> FALSE, errors |-> << >>, warnings |-> << >>]

validateSubmission_noRoleCheck(formData, tableName, securityContext) ==
    LET classification == classifyData(formData)
        errors == IF securityContext.userEmail = ""
                  THEN <<"User authentication required">> ELSE << >>
        empty == SelectSeq(formData,
                     LAMBDA e : ~Truthy(e.v) \/ trimsToEmpty(toString(e.v)))
    IN  [validation |->
             [isValid |-> errors = << >>, errors |-> errors,
              warnings |-> [i \in 1..Len(empty) |-> "Empty field: " \o empty[i].k]],
         events |->
             <<[event |-> "VALIDATION_ATTEMPT",
                details |-> [tableName |-> tableName,
                             classification |-> classification,
                             isValid |-> errors = << >>,
                             errorCount |-> Len(errors),
                             warningCount |-> Len(empty)]]>>]

validateSubmission_noAuthCheck(formData, tableName, securityContext) ==
    LET classification == classifyData(formData)
        errors == IF classification = "restricted" /\ securityContext.role # "admin"
                  THEN <<"Restricted data requires admin permissions">> ELSE << >>
        empty == SelectSeq(formData,
                     LAMBDA e : ~Truthy(e.v) \/ trimsToEmpty(toString(e.v)))
    IN  [validation |->
             [isValid |-> errors = << >>, errors |-> errors,
              warnings |-> [i \in 1..Len(empty) |-> "Empty field: " \o empty[i].k]],
         events |->
             <<[event |-> "VALIDATION_ATTEMPT",
                details |-> [tableName |-> tableName,
                             classification |-> classification,
                             isValid |-> errors = << >>,
                             errorCount |-> Len(errors),
                             warningCount |-> Len(empty)]]>>]

\* The validation returned, and the event logged on the way.
validateSubmission(formData, tableName, securityContext) ==
    LET classification == classifyData(formData)
        errors == (IF securityContext.userEmail = ""
                   THEN <<"User authentication required">> ELSE << >>)
               \o (IF classification = "restricted" /\ securityContext.role # "admin"
                   THEN <<"Restricted data requires admin permissions">> ELSE << >>)
        empty == SelectSeq(formData,
                     LAMBDA e : ~Truthy(e.v) \/ trimsToEmpty(toString(e.v)))
    IN  [validation |->
             [isValid |-> errors = << >>, errors |-> errors,
              warnings |-> [i \in 1..Len(empty) |-> "Empty field: " \o empty[i].k]],
         events |->
             <<[event |-> "VALIDATION_ATTEMPT",
                details |-> [tableName |-> tableName,
                             classification |-> classification,
                             isValid |-> errors = << >>,
                             errorCount |-> Len(errors),
                             warningCount |-> Len(empty)]]>>]

secureData_recordWins(formData, securityContext) ==
    LET metadata ==
            <<[k |-> "department",
               v |-> Str(IF securityContext.department # ""
                         THEN securityContext.department ELSE "general")],
              [k |-> "security_classification", v |-> Str(classifyData(formData))],
              [k |-> "created_by",
               v |-> Str(IF securityContext.userEmail # ""
                         THEN securityContext.userEmail ELSE "anonymous")]>>
    IN  formData \o SelectSeq(metadata, LAMBDA e : ~HasKey(formData, e.k))

\* { ...formData, department, security_classification, created_by }
secureData(formData, securityContext) ==
    Put(Put(Put(formData,
        "department", Str(IF securityContext.department # ""
                          THEN securityContext.department ELSE "general")),
        "security_classification", Str(classifyData(formData))),
        "created_by", Str(IF securityContext.userEmail # ""
                          THEN securityContext.userEmail ELSE "anonymous"))

submitFrame(tableName, formData, securityContext, isConnected) ==
    [tableName |-> tableName, formData |-> formData,
     securityContext |-> securityContext, connectedAtStart |-> isConnected,
     pc |-> "start", stages |-> << >>, emitted |-> << >>,
     validation |-> NoValidation, transform |-> encryptFrame(<< >>),
     encryptedData |-> << >>, pending |-> Null, saltUrl |-> "",
     checked |-> [url |-> "", apiKey |-> ""],
     response |-> "", result |-> Pending]

\* A step of an invocation gives its next frame and the events it logs.
catchError_silent(c, message) ==
    [frame |-> [c EXCEPT !.pc = "done",
                         !.stages = Append(@, "Failed"),
                         !.result = Returned([success |-> FALSE, error |-> message])],
     events |-> << >>]

catchError_noFieldCount(c, message) ==
    [frame |-> [c EXCEPT !.pc = "done",
                         !.stages = Append(@, "Failed"),
                         !.result = Returned([success |-> FALSE, error |-> message])],
     events |-> <<[event |-> "DATA_SUBMISSION_FAILED",
                   details |-> [tableName |-> c.tableName, error |-> message,
                                fieldCount |-> 0]]>>]

\* The catch block: logs the failure and returns it.
catchError(c, message) ==
    [frame |-> [c EXCEPT !.pc = "done",
                         !.stages = Append(@, "Failed"),
                         !.result = Returned([success |-> FALSE, error |-> message])],
     events |-> <<[event |-> "DATA_SUBMISSION_FAILED",
                   details |-> [tableName |-> c.tableName, error |-> message,
                                fieldCount |-> Len(c.formData)]]>>]

submitStart_ignoresValidation(c, key) ==
    IF ~c.connectedAtStart
    THEN catchError(c, "Not connected to database. Please connect first.")
    ELSE LET v == validateSubmission(c.formData, c.tableName, c.securityContext)
         IN  [frame |->
                  [c EXCEPT
                      !.stages = <<"Validating", "Classifying", "Transforming">>,
                      !.validation = v.validation,
                      !.pc = "encryptSensitiveData",
                      !.transform = encryptLoop(
                          encryptFrame(secureData(c.formData, c.securityContext)),
                          key)],
              events |-> v.events]

\* From the call to the first await; key is this.encryptionKey.
submitStart(c, key) ==
    IF ~c.connectedAtStart
    THEN catchError(c, "Not connected to database. Please connect first.")
    ELSE LET v == validateSubmission(c.formData, c.tableName, c.securityContext)
             validated == [c EXCEPT !.stages = <<"Validating">>,
                                    !.validation = v.validation]
         IN  IF ~v.validation.isValid
             THEN LET caught == catchError(validated,
                                    "Validation failed: "
                                        \o join(v.validation.errors, ", "))
                  IN  [frame |-> caught.frame, events |-> v.events \o caught.events]
             ELSE [frame |->
                       [validated EXCEPT
                           !.stages = <<"Validating", "Classifying", "Transforming">>,
                           !.pc = "encryptSensitiveData",
                           !.transform = encryptLoop(
                               encryptFrame(secureData(c.formData, c.securityContext)),
                               key)],
                   events |-> v.events]

afterEncryptSensitiveData_hashesEncrypted(c, url, ok) ==
    [c EXCEPT !.encryptedData = c.transform.encryptedData,
              !.pc = "generateDataHash",
              !.saltUrl = url,
              !.pending = generateDataHash(c.transform.encryptedData, url, ok)]

\* encryptSensitiveData returned: generateDataHash(formData) is called.
afterEncryptSensitiveData(c, url, ok) ==
    [c EXCEPT !.encryptedData = c.transform.encryptedData,
              !.pc = "generateDataHash",
              !.saltUrl = url,
              !.pending = generateDataHash(c.formData, url, ok)]

\* generateDataHash returned: data_hash is set and the record is posted.
afterGenerateDataHash(c) ==
    [c EXCEPT !.encryptedData = Put(@, "data_hash", c.pending),
              !.pc = "fetch",
              !.stages = Append(@, "Transmitting")]

\* The POST request of frame c, invocation number i.
submitRequest(c, i, url, apiKey) ==
    [op |-> "submitSecureData", call |-> i,
     url |-> url \o "/rest/v1/" \o c.tableName, apikey |-> apiKey,
     userEmail |-> c.securityContext.userEmail,
     department |-> c.securityContext.department,
     body |-> c.encryptedData]

\* response.ok and the inserted row arrived.
submitted(c, recordId) ==
    [frame |-> [c EXCEPT !.pc = "done",
                         !.stages = Append(@, "Succeeded"),
                         !.result = Returned([success |-> TRUE, recordId |-> recordId,
                                              message |-> "Form data saved securely"])],
     events |-> <<[event |-> "DATA_SUBMITTED",
                   details |-> [tableName |-> c.tableName, recordId |-> recordId,
                                classification |->
                                    Get(c.encryptedData, "security_classification"),
                                fieldCount |-> Len(c.formData)]]>>]

(***************************************************************************)
(* connectToSupabase, testConnection                                       *)
(***************************************************************************)
RECURSIVE isHostName(_)
isHostName(s) ==
    s = "" \/ ((IsLetter(Head(s)) \/ IsDigit(Head(s)) \/ Head(s) = "-")
               /\ isHostName(Tail(s)))

\* /^https:\/\/[a-zA-Z0-9-]+\.supabase\.co$/
isValidSupabaseUrl(url) ==
    /\ StartsWith(url, "https://")
    /\ EndsWith(url, ".supabase.co")
    /\ Len(url) > Len("https://") + Len(".supabase.co")
    /\ isHostName(SubSeq(url, Len("https://") + 1, Len(url) - Len(".supabase.co")))

isValidApiKey_any(apiKey) == apiKey # ""

\* !apiKey || apiKey.length < 20 does not hold
isValidApiKey(apiKey) == apiKey # "" /\ Len(apiKey) >= 20

\* The GET request of testConnection.
testRequest(url, apiKey) ==
    [op |-> "testConnection", call |-> 0, url |-> url \o "/rest/v1/",
     apikey |-> apiKey, userEmail |-> "", department |-> "", body |-> << >>]

\* A connectToSupabase invocation: its arguments, the await it is suspended
\* at (testConnection, initializeEncryption; idle once it returned) and its
\* result.
connectFrame(url, apiKey) ==
    [pc |-> "start", url |-> url, apiKey |-> apiKey, result |-> Pending]

\* The catch block of connectToSupabase returns the failure.
connectFailed(f, message) ==
    [f EXCEPT !.pc = "idle",
              !.result = Returned([success |-> FALSE, error |-> message])]

connectSucceeded(f) ==
    [f EXCEPT !.pc = "idle",
              !.result = Returned([success |-> TRUE,
                                   message |-> "Connected to secure database",
                                   url |-> f.url, securityLevel |-> "enterprise"])]

(***************************************************************************)
(* Specification of the connector: the page connects, disconnects and      *)
(* submits in any order, at most MaxOps invocations in all, and every      *)
(* invocation goes on, one await at a time, interleaved with the others.   *)
(* The key-value store works: getItem gives what setItem stored.           *)
(***************************************************************************)
MaxOps == 3

UrlB == "https://beta-2.supabase.co"
ApiKeyA == "anon-key-0123456789abcdef"
OpsUser == [email |-> "ops@acme.co", role |-> "admin"]
ConnectArguments ==
    { [url |-> UrlA, apiKey |-> ApiKeyA, userContext |-> OpsUser],
      [url |-> UrlB, apiKey |-> ApiKeyA, userContext |-> NoUser],
      [url |-> "http://acme.supabase.co", apiKey |-> ApiKeyA, userContext |-> OpsUser],
      [url |-> UrlA, apiKey |-> "short-key", userContext |-> OpsUser] }

Records ==
    { <<[k |-> "note", v |-> Str("hello world")]>>,
      <<[k |-> "email", v |-> Str("amy@acme.co")],
        [k |-> "note", v |-> Str("trade secret")]>>,
      <<[k |-> "ssn", v |-> Str("123-45-6789")],
        [k |-> "data_hash", v |-> Str("mine")]>>,
      <<[k |-> "created_by", v |-> Str("eve@evil.co")],
        [k |-> "department", v |-> Str("board")],
        [k |-> "security_classification", v |-> Str("public")]>> }

SecurityContexts ==
    { [userEmail |-> "", department |-> "", role |-> ""],
      [userEmail |-> "", department |-> "", role |-> "admin"],
      [userEmail |-> "amy@acme.co", department |-> "sales", role |-> "user"],
      [userEmail |-> "root@acme.co", department |-> "", role |-> "admin"] }

Init ==
    /\ Constructed
    /\ cryptoOk \in BOOLEAN
    /\ input \in Records
    /\ output = Pending

\* The frame of a step with the entries it logs, as they will stand in auditLog.
stamped(step) ==
    [step.frame EXCEPT !.emitted =
        @ \o [n \in 1..Len(step.events) |->
                 [event |-> step.events[n].event, at |-> Len(auditLog) + n]]]

\* Invocation i takes the step: its frame is replaced and its events logged.
takes(i, step) ==
    /\ calls' = [calls EXCEPT ![i] = stamped(step)]
    /\ logSecurityEvents(step.events, currentUser)

ConnectToSupabase ==
    /\ invocations < MaxOps
    /\ connecting.pc = "idle"
    /\ invocations' = invocations + 1
    /\ \E arguments \in ConnectArguments :
         LET url == arguments.url
             apiKey == arguments.apiKey
             userContext == arguments.userContext
         IN
         IF ~isValidSupabaseUrl(url) \/ ~isValidApiKey(apiKey)
         THEN LET message == IF ~isValidSupabaseUrl(url)
                             THEN "Invalid Supabase URL format"
                             ELSE "Invalid API key format"
              IN  /\ logSecurityEvents(<<[event |-> "CONNECTION_FAILED",
                                          details |-> [error |-> message]]>>,
                                        currentUser)
                  /\ connecting' = connectFailed(connectFrame(url, apiKey), message)
                  /\ UNCHANGED <<connVars, requests>>
         ELSE /\ supabaseUrl' = url
              /\ supabaseKey' = apiKey
              /\ currentUser' = userContext
              /\ requests' = Append(requests, testRequest(url, apiKey))
              /\ connecting' = [connectFrame(url, apiKey) EXCEPT !.pc = "testConnection"]
              /\ UNCHANGED <<connected, encryptionKey, keysGenerated, logVars>>
    /\ UNCHANGED <<cryptoOk, calls, fnVars>>

\* The response of testConnection arrives, or its fetch is rejected.
TestConnectionReturns ==
    /\ connecting.pc = "testConnection"
    /\ \E outcome \in {"ok", "HTTP 401: Unauthorized", "Failed to fetch"} :
         IF outcome = "ok"
         THEN /\ connected' = TRUE
              /\ connecting' = [connecting EXCEPT !.pc = "initializeEncryption"]
              /\ UNCHANGED logVars
         ELSE /\ logSecurityEvents(
                     <<[event |-> "CONNECTION_FAILED",
                        details |-> [error |-> outcome]]>>, currentUser)
              /\ connecting' = connectFailed(connecting, outcome)
              /\ UNCHANGED connected
    /\ UNCHANGED <<supabaseUrl, supabaseKey, encryptionKey, currentUser,
                   keysGenerated, cryptoOk, calls, requests, invocations, fnVars>>

\* initializeEncryption of connectToSupabase completes; the call returns.
ConnectionInitialized ==
    /\ connecting.pc = "initializeEncryption"
    /\ initializeEncryption
    /\ logSecurityEvents(<<[event |-> "CONNECTION_SUCCESS",
                            details |-> [url |-> connecting.url]]>>, currentUser)
    /\ connecting' = connectSucceeded(connecting)
    /\ UNCHANGED <<connected, supabaseUrl, supabaseKey, currentUser, cryptoOk,
                   calls, requests, invocations, fnVars>>

Disconnect ==
    /\ invocations < MaxOps
    /\ invocations' = invocations + 1
    /\ connected' = FALSE
    /\ supabaseUrl' = ""
    /\ supabaseKey' = ""
    /\ encryptionKey' = 0
    /\ currentUser' = NoUser
    /\ logSecurityEvents(<<[event |-> "DISCONNECTED", details |-> << >>]>>, NoUser)
    /\ UNCHANGED <<keysGenerated, cryptoOk, calls, requests, connecting, fnVars>>

\* this.supabaseUrl and this.supabaseKey as a call finds them when it passes
\* its connected check.
checkedEndpoint ==
    IF connected THEN [url |-> supabaseUrl, apiKey |-> supabaseKey]
    ELSE [url |-> "", apiKey |-> ""]

SubmitSecureData ==
    /\ invocations < MaxOps
    /\ invocations' = invocations + 1
    /\ \E securityContext \in SecurityContexts :
         LET step == submitStart(
                         [submitFrame("orders", input, securityContext, connected)
                              EXCEPT !.checked = checkedEndpoint],
                         encryptionKey)
         IN  /\ calls' = Append(calls, stamped(step))
             /\ logSecurityEvents(step.events, currentUser)
    /\ UNCHANGED <<connVars, cryptoOk, requests, connecting, fnVars>>

\* Invocation i is suspended in encryptSensitiveData at the await named pc.
InEncrypt(i, pc) ==
    /\ i \in 1..Len(calls)
    /\ calls[i].pc = "encryptSensitiveData"
    /\ calls[i].transform.pc = pc

SubmitInitializeEncryption(i) ==
    /\ InEncrypt(i, "initializeEncryption")
    /\ initializeEncryption
    /\ calls' = [calls EXCEPT ![i].transform =
                     afterInitializeEncryption(@, encryptionKey')]
    /\ UNCHANGED <<connected, supabaseUrl, supabaseKey, currentUser, logVars,
                   cryptoOk, requests, connecting, invocations, fnVars>>

SubmitEncrypt(i) ==
    /\ InEncrypt(i, "encrypt")
    /\ calls' = [calls EXCEPT ![i].transform = afterEncrypt(@, supabaseUrl, cryptoOk)]
    /\ UNCHANGED <<connVars, logVars, cryptoOk, requests, connecting, invocations,
                   fnVars>>

SubmitHash(i) ==
    /\ InEncrypt(i, "hash")
    /\ calls' = [calls EXCEPT ![i].transform = afterHash(@, encryptionKey)]
    /\ UNCHANGED <<connVars, logVars, cryptoOk, requests, connecting, invocations,
                   fnVars>>

SubmitEncrypted(i) ==
    /\ InEncrypt(i, "returned")
    /\ calls' = [calls EXCEPT ![i] = afterEncryptSensitiveData(@, supabaseUrl, cryptoOk)]
    /\ UNCHANGED <<connVars, logVars, cryptoOk, requests, connecting, invocations,
                   fnVars>>

SubmitFetch(i) ==
    /\ i \in 1..Len(calls)
    /\ calls[i].pc = "generateDataHash"
    /\ calls' = [calls EXCEPT ![i] = afterGenerateDataHash(@)]
    /\ requests' = Append(requests,
                       submitRequest(calls'[i], i, supabaseUrl, supabaseKey))
    /\ UNCHANGED <<connVars, logVars, cryptoOk, connecting, invocations, fnVars>>

\* The response arrives (ok or not), or the fetch is rejected.
SubmitResponse(i) ==
    /\ i \in 1..Len(calls)
    /\ calls[i].pc = "fetch"
    /\ \E outcome \in {"ok", "error", "Failed to fetch"} :
         IF outcome = "Failed to fetch"
         THEN takes(i, catchError(calls[i], outcome))
         ELSE /\ calls' = [calls EXCEPT ![i].pc = "json", ![i].response = outcome]
              /\ UNCHANGED logVars
    /\ UNCHANGED <<connVars, cryptoOk, requests, connecting, invocations, fnVars>>

\* response.json() settles: the inserted row, an error body with or without
\* a message, or a body that is not JSON.
SubmitJson(i) ==
    /\ i \in 1..Len(calls)
    /\ calls[i].pc = "json"
    /\ IF calls[i].response = "ok"
       THEN \/ takes(i, submitted(calls[i], i))
            \/ takes(i, catchError(calls[i], "Unexpected end of JSON input"))
       ELSE \E message \in {"duplicate key value", ""} :
              takes(i, catchError(calls[i],
                           IF message # "" THEN message
                           ELSE "Failed to submit secure data"))
    /\ UNCHANGED <<connVars, cryptoOk, requests, connecting, invocations, fnVars>>

Next ==
    \/ ConnectToSupabase
    \/ TestConnectionReturns
    \/ ConnectionInitialized
    \/ Disconnect
    \/ SubmitSecureData
    \/ \E i \in 1..MaxOps :
         \/ SubmitInitializeEncryption(i)
         \/ SubmitEncrypt(i)
         \/ SubmitHash(i)
         \/ SubmitEncrypted(i)
         \/ SubmitFetch(i)
         \/ SubmitResponse(i)
         \/ SubmitJson(i)

Spec == Init /\ [][Next]_vars

\* The records of the page that classifyData classifies as restricted.
RestrictedRecords == {r \in Records : classifyData(r) = "restricted"}

\* The page whose form holds a restricted record with a sensitive field.
FairInit == Init /\ input \in RestrictedRecords

\* A pending await settles and the invocation suspended at it goes on.
Continues ==
    \/ TestConnectionReturns
    \/ ConnectionInitialized
    \/ \E i \in 1..MaxOps :
         \/ SubmitInitializeEncryption(i)
         \/ SubmitEncrypt(i)
         \/ SubmitHash(i)
         \/ SubmitEncrypted(i)
         \/ SubmitFetch(i)
         \/ SubmitResponse(i)
         \/ SubmitJson(i)

\* Crypto operations complete and a fetch gets its response or is rejected,
\* and the event loop runs the continuation of a settled await: while some
\* invocation is suspended, one of them eventually goes on.
FairSpec == FairInit /\ [][Next]_vars /\ WF_vars(Continues)

(***************************************************************************)
(* Properties of submitSecureData                                          *)
(***************************************************************************)
Reached(c, stage) == \E n \in 1..Len(c.stages) : c.stages[n] = stage

\* The POST requests invocation i has issued.
RequestsOf(i) ==
    {j \in 1..Len(requests) :
        requests[j].op = "submitSecureData" /\ requests[j].call = i}

\* c ran validateSubmission, was refused and returned the validation error.
FailedValidation(c) ==
    /\ Reached(c, "Validating")
    /\ ~c.validation.isValid
    /\ ~Reached(c, "Transforming")
    /\ c.pc = "done"
    /\ c.result = Returned([success |-> FALSE,
                            error |-> "Validation failed: "
                                          \o join(c.validation.errors, ", ")])

\* c was refused by the connected check, before validateSubmission.
FailedNotConnected(c) ==
    /\ ~Reached(c, "Validating")
    /\ c.pc = "done"
    /\ c.result = Returned([success |-> FALSE,
                            error |-> "Not connected to database. Please connect first."])

\* Invocation i passed validation and went on: it is transforming, or has
\* issued its request; it does not end before it issued its request.
Proceeds(i) ==
    LET c == calls[i]
    IN  /\ Reached(c, "Validating")
        /\ c.validation.isValid
        /\ Reached(c, "Transforming")
        /\ Reached(c, "Transmitting") <=> RequestsOf(i) # {}
        /\ c.pc \in {"fetch", "json", "done"} <=> Reached(c, "Transmitting")

IsAdmin(c) == c.securityContext.role = "admin"

\* generateDataHash of the records of the page, under each endpoint.
RecordDigest ==
    [r \in Records, url \in {"", UrlA, UrlB}, ok \in BOOLEAN |->
        generateDataHash(r, url, ok)]
HasUserEmail(c) == c.securityContext.userEmail # ""

\* C1 as stated: whatever the state of the connector, a restricted record
\* submitted by a non-admin fails validation and issues no request; submitted
\* by an admin with userEmail on a connected connector it passes validation
\* and proceeds to transformation and transmission.
C1_AsStated ==
    \A i \in 1..Len(calls) :
        LET c == calls[i]
        IN  c.formData \in RestrictedRecords =>
                /\ ~IsAdmin(c) => FailedValidation(c) /\ RequestsOf(i) = {}
                /\ IsAdmin(c) /\ HasUserEmail(c) /\ c.connectedAtStart => Proceeds(i)

\* C1: on a connector that is connected when the call starts, a restricted
\* record submitted with role != 'admin' fails validation and issues no
\* request, and the same record submitted by an admin with userEmail passes
\* validation and proceeds to transformation and transmission; on a connector
\* that is not connected the call is refused before validation, whatever the
\* role, and issues no request either.
C1_RestrictedNeedsAdmin ==
    \A i \in 1..Len(calls) :
        LET c == calls[i]
        IN  c.formData \in RestrictedRecords =>
                /\ ~IsAdmin(c) /\ c.connectedAtStart =>
                       /\ FailedValidation(c)
                       /\ \E n \in 1..Len(c.validation.errors) :
                              c.validation.errors[n]
                                  = "Restricted data requires admin permissions"
                       /\ RequestsOf(i) = {}
                /\ IsAdmin(c) /\ HasUserEmail(c) /\ c.connectedAtStart => Proceeds(i)
                /\ ~c.connectedAtStart => FailedNotConnected(c) /\ RequestsOf(i) = {}

C1_Witness ==
    \E i, j \in 1..Len(calls) :
        /\ calls[i].formData \in RestrictedRecords
        /\ calls[i].connectedAtStart /\ ~IsAdmin(calls[i]) /\ HasUserEmail(calls[i])
        /\ FailedValidation(calls[i])
        /\ calls[j].formData = calls[i].formData
        /\ calls[j].connectedAtStart /\ IsAdmin(calls[j]) /\ HasUserEmail(calls[j])
        /\ RequestsOf(j) # {}

\* C2 as stated: whatever the state of the connector, a call whose security
\* context has no userEmail fails validation with the authentication-required
\* error and issues no request.
C2_AsStated ==
    \A i \in 1..Len(calls) :
        LET c == calls[i]
        IN  ~HasUserEmail(c) =>
                /\ FailedValidation(c)
                /\ \E n \in 1..Len(c.validation.errors) :
                       c.validation.errors[n] = "User authentication required"
                /\ RequestsOf(i) = {}

\* C2: on a connector that is connected when the call starts, a call whose
\* security context has no userEmail fails validation with the
\* authentication-required error, whatever the record and the role; on a
\* connector that is not connected it fails with the not-connected error
\* before validation; in both cases it issues no request.
C2_AuthenticationRequired ==
    \A i \in 1..Len(calls) :
        LET c == calls[i]
        IN  ~HasUserEmail(c) =>
                /\ c.connectedAtStart =>
                       /\ FailedValidation(c)
                       /\ c.validation.errors[1] = "User authentication required"
                /\ ~c.connectedAtStart => FailedNotConnected(c)
                /\ RequestsOf(i) = {}
                /\ ~Reached(c, "Transmitting")

C2_Witness ==
    \E i, j \in 1..Len(calls) :
        /\ ~HasUserEmail(calls[i]) /\ calls[i].connectedAtStart /\ IsAdmin(calls[i])
        /\ FailedValidation(calls[i])
        /\ ~HasUserEmail(calls[j]) /\ ~calls[j].connectedAtStart
        /\ FailedNotConnected(calls[j])

TerminalEvents == {"DATA_SUBMITTED", "DATA_SUBMISSION_FAILED"}

\* The terminal entries invocation c has logged.
TerminalEmitted(c) == SelectSeq(c.emitted, LAMBDA e : e.event \in TerminalEvents)

Last(seq) == seq[Len(seq)]

\* Invocation c returned: it is in Succeeded or Failed, and the last thing it
\* did was to log the one entry of that terminal state.
Terminated(c) ==
    /\ c.result.state = "returned"
    /\ Len(TerminalEmitted(c)) = 1
    /\ Last(c.emitted) = TerminalEmitted(c)[1]
    /\ Last(c.emitted).at \in 1..Len(auditLog)
    /\ LET entry == auditLog[Last(c.emitted).at]
       IN  /\ entry.event = Last(c.emitted).event
           /\ entry.details.tableName = c.tableName
           /\ IF c.result.value.success
              THEN /\ entry.event = "DATA_SUBMITTED"
                   /\ Last(c.stages) = "Succeeded"
                   /\ ~Reached(c, "Failed")
              ELSE /\ entry.event = "DATA_SUBMISSION_FAILED"
                   /\ entry.details.error = c.result.value.error
                   /\ Last(c.stages) = "Failed"
                   /\ ~Reached(c, "Succeeded")

C3_Audit ==
    /\ \A i \in 1..Len(calls) :
           LET c == calls[i]
           IN  /\ c.pc = "done" => Terminated(c)
               /\ c.pc # "done" =>
                      /\ c.result = Pending
                      /\ TerminalEmitted(c) = << >>
                      /\ ~Reached(c, "Succeeded") /\ ~Reached(c, "Failed")
               /\ Reached(c, "Validating") /\ ~c.validation.isValid =>
                      /\ c.pc = "done"
                      /\ c.stages = <<"Validating", "Failed">>
                      /\ RequestsOf(i) = {}
    /\ Cardinality({n \in 1..Len(auditLog) : auditLog[n].event \in TerminalEvents})
           = Cardinality({i \in 1..Len(calls) : calls[i].pc = "done"})

\* C3: every submitSecureData call ends in Succeeded or Failed (the page makes
\* finitely many calls and their awaits settle, so from some point on every
\* call made has returned), and a call has logged exactly one entry of its terminal state,
\* DATA_SUBMITTED or DATA_SUBMISSION_FAILED, when it returns and none before;
\* a call that fails in Validating never reaches Transmitting, issues no
\* request and still logs its entry.
C3_TerminalAudit ==
    /\ []C3_Audit
    /\ <>[](\A i \in 1..Len(calls) : calls[i].pc = "done")

C3_Witness ==
    \E i, j \in 1..Len(calls) :
        /\ FailedValidation(calls[i]) /\ Terminated(calls[i])
        /\ calls[j].pc = "done" /\ calls[j].result.value.success
        /\ Terminated(calls[j])

\* C4: the data_hash of every transmitted record is the digest of the record
\* the caller supplied, taken before the security metadata is attached and
\* before any field is encrypted: two transmissions of one record under one
\* endpoint carry the same data_hash whatever else their bodies hold.
C4_DigestOfOriginal ==
    /\ \A j \in 1..Len(requests) :
           requests[j].op = "submitSecureData" =>
               LET c == calls[requests[j].call]
               IN  /\ HasKey(requests[j].body, "data_hash")
                   /\ Get(requests[j].body, "data_hash")
                          = RecordDigest[c.formData, c.saltUrl, cryptoOk]
    /\ \A j, k \in 1..Len(requests) :
           /\ requests[j].op = "submitSecureData"
           /\ requests[k].op = "submitSecureData"
           /\ calls[requests[j].call].formData = calls[requests[k].call].formData
           /\ calls[requests[j].call].saltUrl = calls[requests[k].call].saltUrl
           => Get(requests[j].body, "data_hash") = Get(requests[k].body, "data_hash")

\* Two transmissions of one record under one endpoint: one with a field
\* encrypted, the other with another key or other metadata.
C4_Witness ==
    \E j, k \in 1..Len(requests) :
        /\ requests[j].op = "submitSecureData"
        /\ requests[k].op = "submitSecureData"
        /\ calls[requests[j].call].formData = calls[requests[k].call].formData
        /\ calls[requests[j].call].saltUrl = calls[requests[k].call].saltUrl
        /\ requests[j].body # requests[k].body
        /\ \E n \in 1..Len(requests[j].body) :
               /\ EndsWith(requests[j].body[n].k, "_encrypted")
               /\ requests[j].body[n].v.t = "aesgcm"

(***************************************************************************)
(* Specification of sanitizeColumnName: applied once to a field name       *)
(***************************************************************************)
MaxNameLen == 3
NameChars == {"A", "z", "7", "_", " ", "-"}

InitSanitize ==
    /\ Constructed
    /\ cryptoOk = TRUE
    /\ \E n \in 0..MaxNameLen :
         \E chars \in [1..n -> NameChars] : input = join(chars, "")
    /\ output = Pending

ApplySanitize ==
    /\ output = Pending
    /\ output' = Returned(sanitizeColumnName(input))
    /\ UNCHANGED <<connVars, logVars, cryptoOk, callVars, input>>

SpecSanitize == InitSanitize /\ [][ApplySanitize]_vars

\* C11: sanitizing a sanitized name changes nothing:
\* sanitizeColumnName(sanitizeColumnName(n)) = sanitizeColumnName(n), and the
\* result is what the three replacements give for n.
C11_Idempotent ==
    output.state = "returned" =>
        /\ output.value = sanitizeColumnName(input)
        /\ sanitizeColumnName(output.value) = output.value
        /\ ToLowerCase(output.value) = output.value

\* A name that every one of the three replacements changes.
C11_Witness ==
    /\ output.state = "returned"
    /\ input = "7-A"
    /\ output.value = "_7_a"

\* [a-zA-Z][a-zA-Z0-9_]*
RECURSIVE IsWord(_)
IsWord(s) == s = "" \/ (IsWordChar(Head(s)) /\ IsWord(Tail(s)))

MatchesIdentifierGrammar(s) == s # "" /\ IsLetter(At(s, 1)) /\ IsWord(s)

\* C12: for every field of the list, the sanitized column name is embedded in
\* the generated CREATE TABLE text and matches [a-zA-Z][a-zA-Z0-9_]*.
C12_IdentifierGrammar ==
    output.state = "returned" =>
        \A i \in 1..Len(input.fields) :
            LET columnName == sanitizeColumnName(input.fields[i].name)
            IN  /\ MatchesIdentifierGrammar(columnName)
                /\ \E n \in 1..Len(output.value.createTable) :
                       Contains(output.value.createTable[n], "\"" \o columnName)

(***************************************************************************)
(* Properties of connectToSupabase                                         *)
(***************************************************************************)
\* The endpoints of the page that match https://<host>.supabase.co.
WellFormedUrls == {UrlA, UrlB}

\* The preconditions of connectToSupabase hold of the arguments of frame f.
Acceptable(f) == f.url \in WellFormedUrls /\ Len(f.apiKey) >= 20

\* The connection state and the requests stay as they are.
ConnectionUntouched ==
    UNCHANGED <<connected, supabaseUrl, supabaseKey, encryptionKey, currentUser,
                requests>>

\* What submitSecureData checks before it transforms: the connected flag
\* and the validation of the security context.
Admitted(c) ==
    /\ c.connectedAtStart
    /\ HasUserEmail(c)
    /\ c.formData \in RestrictedRecords => IsAdmin(c)

C14_Accepts ==
    /\ \A j \in 1..Len(requests) :
           requests[j].op = "testConnection" =>
               /\ \E url \in WellFormedUrls : requests[j].url = url \o "/rest/v1/"
               /\ Len(requests[j].apikey) >= 20
    /\ connecting.pc # "idle" => Acceptable(connecting)
    /\ connecting.result.state = "returned" =>
           /\ connecting.result.value.success => Acceptable(connecting)
           /\ ~Acceptable(connecting) =>
                  connecting.result.value
                      = [success |-> FALSE,
                         error |-> IF connecting.url \notin WellFormedUrls
                                   THEN "Invalid Supabase URL format"
                                   ELSE "Invalid API key format"]
    /\ \A i \in 1..Len(calls) : Reached(calls[i], "Transforming") <=> Admitted(calls[i])

\* C14: connectToSupabase accepts an endpoint only if the URL matches
\* https://<host>.supabase.co and the API key has at least 20 characters; a
\* call whose URL or key fails the test returns a failure result, issues no
\* request and leaves the connection state as it is; submitSecureData goes on
\* whenever the connector is connected and the validation passes, without
\* testing the URL or the key.
C14_ConnectPreconditions ==
    /\ []C14_Accepts
    /\ [][connecting' # connecting /\ ~Acceptable(connecting')
              => ConnectionUntouched /\ connecting'.pc = "idle"]_vars

\* On a connected connector a call with a short key was refused and left the
\* connector connected, and a submission went on to its request.
C14_Witness ==
    /\ connecting.result.state = "returned"
    /\ connecting.apiKey = "short-key"
    /\ ~connecting.result.value.success
    /\ connected
    /\ \E j \in 1..Len(requests) : requests[j].op = "submitSecureData"

(***************************************************************************)
(* Properties of submitSecureData: failures, crypto, metadata, stages      *)
(***************************************************************************)
\* The messages of the failures that come from the endpoint.
EndpointErrors ==
    {"Failed to fetch", "duplicate key value", "Failed to submit secure data",
     "Unexpected end of JSON input"}

\* C15: every failing submitSecureData call (not connected, validation
\* failure, non-success response, network error) returns success false with a
\* message, and its audit entry carries that message, the table name and the
\* number of fields of the record.
C15_StructuredFailure ==
    \A i \in 1..Len(calls) :
        LET c == calls[i]
        IN  /\ c.pc = "done" =>
                /\ c.result.state = "returned"
                /\ c.result.value.success \in BOOLEAN
            /\ c.pc = "done" /\ ~c.result.value.success =>
                /\ c.result.value.error # ""
                /\ auditLog[Last(c.emitted).at].event = "DATA_SUBMISSION_FAILED"
                /\ auditLog[Last(c.emitted).at].details
                       = [tableName |-> c.tableName,
                          error |-> c.result.value.error,
                          fieldCount |-> Len(c.formData)]
                /\ ~c.connectedAtStart => FailedNotConnected(c)
                /\ c.connectedAtStart /\ ~c.validation.isValid => FailedValidation(c)
                /\ Admitted(c) => /\ Reached(c, "Transmitting")
                                  /\ c.result.value.error \in EndpointErrors
            /\ ~Admitted(c) => c.pc = "done" /\ ~c.result.value.success

\* A call refused for the connection, and one refused by the endpoint
\* without a message.
C15_Witness ==
    \E i, j \in 1..Len(calls) :
        /\ FailedNotConnected(calls[i])
        /\ calls[j].pc = "done"
        /\ calls[j].result.value = [success |-> FALSE,
                                    error |-> "Failed to submit secure data"]

\* C16: when crypto.subtle is unusable (no key is generated, encryption and
\* hashing fail), no submission fails before its request: every admitted
\* call transmits, and each field it would encrypt is sent under
\* <field>_encrypted with the plaintext that encrypt was given.
C16_CryptoFailureDegrades ==
    ~cryptoOk =>
        /\ encryptionKey = 0
        /\ \A i \in 1..Len(calls) :
               LET c == calls[i]
               IN  /\ Admitted(c) /\ c.pc = "done" => Reached(c, "Transmitting")
                   /\ \A j \in RequestsOf(i) :
                          \A n \in 1..Len(c.transform.data) :
                              c.transform.encrypts[n] =>
                                  Get(requests[j].body,
                                      c.transform.data[n].k \o "_encrypted")
                                      = Str(toString(c.transform.data[n].v))

C16_Witness ==
    /\ ~cryptoOk
    /\ \E j \in 1..Len(requests) :
           /\ requests[j].op = "submitSecureData"
           /\ HasKey(requests[j].body, "email_encrypted")
           /\ Get(requests[j].body, "email_encrypted") = Str("amy@acme.co")

\* classifyData of the records of the page.
RecordClassification == [r \in Records |-> classifyData(r)]

\* C17: in every transmitted record department is securityContext.department
\* ('general' when none is given), security_classification is the
\* classification of the original record and created_by is
\* securityContext.userEmail, also when the original record has fields with
\* those names.
C17_MetadataFromContext ==
    \A j \in 1..Len(requests) :
        requests[j].op = "submitSecureData" =>
            LET c == calls[requests[j].call]
            IN  /\ Get(requests[j].body, "department")
                       = Str(IF c.securityContext.department # ""
                             THEN c.securityContext.department ELSE "general")
                /\ Get(requests[j].body, "security_classification")
                       = Str(RecordClassification[c.formData])
                /\ Get(requests[j].body, "created_by")
                       = Str(c.securityContext.userEmail)
                /\ c.securityContext.userEmail # ""

\* A transmitted record whose original has the three metadata fields.
C17_Witness ==
    \E j \in 1..Len(requests) :
        /\ requests[j].op = "submitSecureData"
        /\ HasKey(calls[requests[j].call].formData, "created_by")
        /\ HasKey(calls[requests[j].call].formData, "department")
        /\ HasKey(calls[requests[j].call].formData, "security_classification")
        /\ Get(requests[j].body, "department") = Str("general")

\* C18: a call issues at most one request, and only after it went through
\* Validating, Classifying and Transforming in this order; a call on a
\* connector that is not connected, or whose validation failed, issues none.
C18_OneRequestAfterStages ==
    \A i \in 1..Len(calls) :
        LET c == calls[i]
        IN  /\ Cardinality(RequestsOf(i)) <= 1
            /\ RequestsOf(i) # {} =>
                   /\ Len(c.stages) >= 4
                   /\ SubSeq(c.stages, 1, 4)
                          = <<"Validating", "Classifying", "Transforming",
                              "Transmitting">>
                   /\ c.connectedAtStart
                   /\ c.validation.isValid
            /\ ~c.connectedAtStart \/ ~c.validation.isValid => RequestsOf(i) = {}
            /\ Reached(c, "Transmitting") => RequestsOf(i) # {}

\* One call transmitted and returned, another refused by the validation.
C18_Witness ==
    \E i, j \in 1..Len(calls) :
        /\ calls[i].pc = "done" /\ Cardinality(RequestsOf(i)) = 1
        /\ FailedValidation(calls[j]) /\ RequestsOf(j) = {}

\* C19: in every reachable state a cipher key is held only while the
\* connector is connected.
C19_KeyOnlyWhileConnected == encryptionKey # 0 => connected

\* C20: while the page has connected at most once and never disconnected (one
\* session at most), at most one cipher key has been generated.
C20_OneKeyPerSession ==
    /\ Cardinality({j \in 1..Len(requests) : requests[j].op = "testConnection"}) <= 1
    /\ \A n \in 1..Len(auditLog) : auditLog[n].event # "DISCONNECTED"
    => keysGenerated <= 1

(***************************************************************************)
(* createSecureTable, setupRLSPolicies, executeSQL                         *)
(***************************************************************************)
\* /^[a-zA-Z][a-zA-Z0-9_]*$/.test(name) && name.length <= 63
isValidTableName(name) == MatchesIdentifierGrammar(name) /\ Len(name) <= 63

\* The policies array of setupRLSPolicies, each text as its lines.
policies(tableName) ==
    << << "CREATE POLICY \"" \o tableName \o "_read_policy\" ON \"" \o tableName \o "\"",
          "FOR SELECT USING (",
          "auth.email() = created_by OR",
          "(department = (auth.jwt() ->> 'department') AND auth.role() = 'authenticated') OR",
          "(auth.jwt() ->> 'role' = 'admin')",
          ");" >>,
       << "CREATE POLICY \"" \o tableName \o "_insert_policy\" ON \"" \o tableName \o "\"",
          "FOR INSERT WITH CHECK (",
          "auth.role() = 'authenticated' AND",
          "created_by = auth.email()",
          ");" >>,
       << "CREATE POLICY \"" \o tableName \o "_update_policy\" ON \"" \o tableName \o "\"",
          "FOR UPDATE USING (",
          "auth.email() = created_by OR",
          "(auth.jwt() ->> 'role' = 'admin')",
          ");" >>,
       << "CREATE POLICY \"" \o tableName \o "_delete_policy\" ON \"" \o tableName \o "\"",
          "FOR DELETE USING (",
          "auth.jwt() ->> 'role' = 'admin'",
          ");" >> >>

\* generateAuditTrigger(tableName): the statements of the text, without the
\* bodies of the jsonb_build_object calls.
generateAuditTrigger(tableName) ==
    << "-- Create audit trigger for " \o tableName,
       "CREATE OR REPLACE FUNCTION audit_" \o tableName \o "()",
       "RETURNS TRIGGER AS $$",
       "BEGIN",
       "IF TG_OP = 'INSERT' THEN",
       "NEW.audit_log = NEW.audit_log || jsonb_build_object('action', 'INSERT');",
       "RETURN NEW;",
       "ELSIF TG_OP = 'UPDATE' THEN",
       "NEW.audit_log = NEW.audit_log || jsonb_build_object('action', 'UPDATE');",
       "NEW.updated_at = NOW();",
       "RETURN NEW;",
       "ELSIF TG_OP = 'DELETE' THEN",
       "INSERT INTO \"" \o tableName \o "_audit\" (",
       "original_id, action, timestamp, user_email, data",
       ") VALUES (",
       "OLD.id, 'DELETE', NOW(), auth.email(), to_jsonb(OLD)",
       ");",
       "RETURN OLD;",
       "END IF;",
       "RETURN NULL;",
       "END;",
       "$$ LANGUAGE plpgsql SECURITY DEFINER;",
       "CREATE TRIGGER audit_" \o tableName \o "_trigger",
       "BEFORE INSERT OR UPDATE OR DELETE ON \"" \o tableName \o "\"",
       "FOR EACH ROW EXECUTE FUNCTION audit_" \o tableName \o "();" >>

\* generateRetentionPolicy(tableName): the text cut at each {{DAYS}}, which
\* stands as an element of its own.
generateRetentionPolicy(tableName) ==
    << "-- Create retention policy for " \o tableName,
       "CREATE OR REPLACE FUNCTION cleanup_" \o tableName \o "()",
       "RETURNS void AS $$",
       "BEGIN",
       "INSERT INTO \"" \o tableName \o "_archive\"",
       "SELECT * FROM \"" \o tableName \o "\"",
       "WHERE created_at < NOW() - INTERVAL '", "{{DAYS}}", " days';",
       "DELETE FROM \"" \o tableName \o "\"",
       "WHERE created_at < NOW() - INTERVAL '", "{{DAYS}}", " days';",
       "RAISE NOTICE 'Cleaned up old records from " \o tableName \o "';",
       "END;",
       "$$ LANGUAGE plpgsql SECURITY DEFINER;" >>

\* String.prototype.replace with a string pattern: the first occurrence only.
replace(text, pattern, value) ==
    IF \E n \in 1..Len(text) : text[n] = pattern
    THEN LET first == CHOOSE n \in 1..Len(text) :
                          /\ text[n] = pattern
                          /\ \A m \in 1..(n - 1) : text[m] # pattern
         IN  [text EXCEPT ![first] = value]
    ELSE text

\* The option names of securityOptions, in the order the caller wrote them.
OptionKeys ==
    <<"enableAuditLog", "enableEncryption", "departmentLevel", "retentionDays",
      "accessLevel">>

\* securityOptions[k] is truthy.
truthyOption(securityOptions, k) ==
    CASE k = "enableAuditLog" -> securityOptions.enableAuditLog
      [] k = "enableEncryption" -> securityOptions.enableEncryption
      [] k = "departmentLevel" -> securityOptions.departmentLevel
      [] k = "retentionDays" -> securityOptions.retentionDays # 0
      [] OTHER -> securityOptions.accessLevel # ""

\* Object.keys(securityOptions).filter(k => securityOptions[k])
features(securityOptions) ==
    SelectSeq(OptionKeys, LAMBDA k : truthyOption(securityOptions, k))

\* The message of the error that a failing statement raises in executeSQL.
SqlError == "permission denied for schema public"

\* An invocation of createSecureTable: its arguments, the await it stands at
\* (pc), the statement handed to executeSQL (sql), the index of the policy the
\* loop of setupRLSPolicies is at, the statements executeSQL has answered with
\* their outcomes, and what was written to the console.
tableFrame(tableName, fields, securityOptions) ==
    [tableName |-> tableName, fields |-> fields,
     securityOptions |-> securityOptions,
     pc |-> "start", sql |-> << >>, policy |-> 0,
     auditTrigger |-> << >>, retentionPolicy |-> << >>,
     executed |-> << >>, console |-> << >>, result |-> Pending]

\* The catch of createSecureTable.
tableCreationFailed(f, message) ==
    [frame |-> [f EXCEPT !.pc = "done",
                         !.console = Append(@, [level |-> "error",
                                                text |-> "Secure table creation failed"]),
                         !.result = Returned([success |-> FALSE, error |-> message])],
     events |-> <<[event |-> "TABLE_CREATION_FAILED",
                   details |-> [tableName |-> f.tableName, error |-> message]]>>]

\* The end of the try of createSecureTable.
tableCreated(f) ==
    [frame |-> [f EXCEPT !.pc = "done",
                         !.console = Append(@, [level |-> "log",
                                                text |-> "Secure table created"]),
                         !.result = Returned([success |-> TRUE,
                                              tableName |-> f.tableName,
                                              securityLevel |-> f.securityOptions.accessLevel,
                                              features |-> features(f.securityOptions)])],
     events |-> <<[event |-> "TABLE_CREATED",
                   details |-> [tableName |-> f.tableName,
                                fieldsCount |-> Len(f.fields),
                                securityOptions |-> f.securityOptions]]>>]

\* executeSQL(sql) up to its await; the caller waits at pc.
executeSQL(f, pc, sql) ==
    [frame |-> [f EXCEPT !.pc = pc, !.sql = sql,
                         !.console = Append(@, [level |-> "log",
                                                text |-> "Executing SQL"])],
     events |-> << >>]

createSecureTable_unchecked(f, isConnected) ==
    LET schema == generateSecureTableSchema(
                      f.tableName, f.fields,
                      [enableAuditLog |-> f.securityOptions.enableAuditLog,
                       enableEncryption |-> f.securityOptions.enableEncryption,
                       departmentLevel |-> f.securityOptions.departmentLevel,
                       accessLevel |-> f.securityOptions.accessLevel])
    IN  executeSQL([f EXCEPT !.auditTrigger = generateAuditTrigger(f.tableName),
                             !.retentionPolicy = generateRetentionPolicy(f.tableName)],
                   "createTable", schema.createTable)

\* createSecureTable up to its first await, on a connector whose connected
\* flag is isConnected.
createSecureTable(f, isConnected) ==
    IF ~isConnected
    THEN tableCreationFailed(f, "Not connected to database. Please connect first.")
    ELSE IF ~isValidTableName(f.tableName)
    THEN tableCreationFailed(
             f, "Invalid table name. Use only letters, numbers, and underscores.")
    ELSE LET schema == generateSecureTableSchema(
                           f.tableName, f.fields,
                           [enableAuditLog |-> f.securityOptions.enableAuditLog,
                            enableEncryption |-> f.securityOptions.enableEncryption,
                            departmentLevel |-> f.securityOptions.departmentLevel,
                            accessLevel |-> f.securityOptions.accessLevel])
         IN  executeSQL([f EXCEPT !.auditTrigger = generateAuditTrigger(f.tableName),
                                  !.retentionPolicy = generateRetentionPolicy(f.tableName)],
                        "createTable", schema.createTable)

\* createSecureTable after the audit trigger: the retention policy, if asked for.
afterAuditTrigger(f) ==
    IF f.securityOptions.retentionDays # 0
    THEN executeSQL(f, "retentionPolicy",
                    replace(f.retentionPolicy, "{{DAYS}}",
                            ToString(f.securityOptions.retentionDays)))
    ELSE tableCreated(f)

\* createSecureTable after setupRLSPolicies returned.
afterSetupRLSPolicies(f) ==
    IF f.securityOptions.enableAuditLog
    THEN executeSQL(f, "auditTrigger", f.auditTrigger)
    ELSE afterAuditTrigger(f)

\* The loop of setupRLSPolicies from the policy of index n on.
setupRLSPolicies(f, n) ==
    IF n <= Len(policies(f.tableName))
    THEN executeSQL([f EXCEPT !.policy = n], "policy", policies(f.tableName)[n])
    ELSE afterSetupRLSPolicies(f)

\* executeSQL returns {success: true}, or its catch logs the error and returns
\* {success: false, error}; the caller goes on from its await.
executeSQLReturned(f, ok) ==
    LET answered ==
            [f EXCEPT !.executed = Append(@, [at |-> f.pc, sql |-> f.sql,
                                              response |-> IF ok
                                                  THEN [success |-> TRUE]
                                                  ELSE [success |-> FALSE,
                                                        error |-> SqlError]]),
                      !.console = IF ok THEN @
                                  ELSE Append(@, [level |-> "error",
                                                  text |-> "SQL execution failed"])]
    IN  CASE f.pc = "createTable" ->
                 IF ok THEN setupRLSPolicies(answered, 1)
                 ELSE tableCreationFailed(answered, "Failed to create table")
          [] f.pc = "policy" -> setupRLSPolicies(answered, f.policy + 1)
          [] f.pc = "auditTrigger" -> afterAuditTrigger(answered)
          [] OTHER -> tableCreated(answered)

(***************************************************************************)
(* Specification of createSecureTable: the page connects, disconnects and  *)
(* creates the table of its form                                           *)
(***************************************************************************)
TableNames == {"orders", "1st_orders"}

TableFields ==
    << [name |-> "ssn", label |-> "", type |-> "text", required |-> TRUE],
       [name |-> "note", label |-> "", type |-> "text", required |-> FALSE] >>

RetentionDays == 30

TableOptions ==
    [enableAuditLog : BOOLEAN, enableEncryption : {TRUE}, departmentLevel : BOOLEAN,
     retentionDays : {0, RetentionDays}, accessLevel : {"internal"}]

InitTable ==
    /\ Constructed
    /\ cryptoOk = TRUE
    /\ \E tableName \in TableNames, securityOptions \in TableOptions :
           input = [tableName |-> tableName, fields |-> TableFields,
                    securityOptions |-> securityOptions]
    /\ output = Pending

CreateSecureTable ==
    /\ output = Pending
    /\ invocations < MaxOps
    /\ invocations' = invocations + 1
    /\ LET step == createSecureTable(
                       tableFrame(input.tableName, input.fields,
                                  input.securityOptions), connected)
       IN  /\ output' = step.frame
           /\ logSecurityEvents(step.events, currentUser)
    /\ UNCHANGED <<connVars, cryptoOk, calls, requests, connecting, input>>

ExecuteSQLReturns ==
    /\ output # Pending
    /\ output.pc \in {"createTable", "policy", "auditTrigger", "retentionPolicy"}
    /\ \E ok \in BOOLEAN :
         LET step == executeSQLReturned(output, ok)
         IN  /\ output' = step.frame
             /\ logSecurityEvents(step.events, currentUser)
    /\ UNCHANGED <<connVars, cryptoOk, calls, requests, connecting, invocations,
                   input>>

NextTable ==
    \/ ConnectToSupabase
    \/ TestConnectionReturns
    \/ ConnectionInitialized
    \/ Disconnect
    \/ CreateSecureTable
    \/ ExecuteSQLReturns

SpecTable == InitTable /\ [][NextTable]_vars

\* The answers of executeSQL to the policies of the call, in order.
PolicyAnswers == SelectSeq(output.executed, LAMBDA e : e.at = "policy")

\* setupRLSPolicies of the call has returned.
PoliciesSetUp ==
    /\ output # Pending
    /\ \E n \in 1..Len(output.executed) : output.executed[n].at = "createTable"
    /\ output.executed[1].response.success
    /\ output.pc \in {"auditTrigger", "retentionPolicy", "done"}

\* All four rules were attempted, whatever the answers.
AllRulesAttempted ==
    PoliciesSetUp =>
        [n \in 1..Len(PolicyAnswers) |-> PolicyAnswers[n].sql]
            = policies(output.tableName)

\* A call whose table was created returns success, whatever the rules answered.
RuleFailureTolerated ==
    PoliciesSetUp /\ output.pc = "done" => output.result.value.success

\* Each rule that failed left a warning on the console.
RuleFailureWarned ==
    PoliciesSetUp =>
        Len(SelectSeq(output.console, LAMBDA l : l.level = "warn"))
            = Len(SelectSeq(PolicyAnswers, LAMBDA e : ~e.response.success))

RetentionExecuted ==
    IF output = Pending THEN << >>
    ELSE SelectSeq(output.executed, LAMBDA e : e.at = "retentionPolicy")

\* C21: when createSecureTable is called with retentionDays set, the cleanup
\* routine handed to the endpoint uses the caller's threshold in the archive
\* INSERT and in the DELETE, and no {{DAYS}} placeholder remains in it.
C21_RetentionThreshold ==
    \A n \in 1..Len(RetentionExecuted) :
        LET sql == RetentionExecuted[n].sql
            days == ToString(output.securityOptions.retentionDays)
        IN  /\ \A m \in 1..Len(sql) : sql[m] # "{{DAYS}}"
            /\ Cardinality({m \in 1..Len(sql) : sql[m] = days}) = 2

(***************************************************************************)
(* Specification of the connector on a page whose key-value store fails:   *)
(* in logSecurityEvent, JSON.parse rejects the stored log or setItem       *)
(* throws. The page connects, creates its table, submits and disconnects.  *)
(***************************************************************************)
\* The messages of the errors the store raises: JSON.parse, setItem.
StoreErrors == {"Unexpected token o in JSON at position 1", "QuotaExceededError"}

\* The promise of an async function is rejected, or a function threw.
Thrown(error) == [state |-> "thrown", error |-> error]

\* logSecurityEvent pushes the entry to this.auditLog and then throws, for
\* each of events in order.
pushed(events, user) ==
    logged([auditLog |-> auditLog, storedLog |-> << >>], events, user).auditLog

\* The events a handler pushes when its first logSecurityEvent throws: a call
\* in the try block is followed by the call of the catch block, which logs
\* failure; a call in the catch block is the last.
thrownIn(events, failure) ==
    IF Head(events).event = failure.event THEN <<Head(events)>>
    ELSE <<Head(events), failure>>

\* connectToSupabase is rejected with the error of the store.
connectRejected(f, error) == [f EXCEPT !.pc = "idle", !.result = Thrown(error)]

\* The CONNECTION_FAILED entry of the catch of connectToSupabase.
connectionFailed(message) ==
    [event |-> "CONNECTION_FAILED", details |-> [error |-> message]]

\* submitSecureData from its start on a failing store: validateSubmission, or
\* the catch of a call that is not connected, logs and throws.
submitRejected(c, key, error) ==
    LET step == submitStart(c, key)
    IN  [frame |-> [c EXCEPT !.pc = "done",
                             !.stages = IF c.connectedAtStart
                                        THEN <<"Validating">> ELSE << >>,
                             !.result = Thrown(error)],
         events |-> thrownIn(step.events, Head(catchError(c, error).events))]

\* A step of createSecureTable on a failing store: a step that logs nothing
\* goes on as it does, a step that logs is rejected before it writes to the
\* console.
tableRejected(step, error) ==
    IF step.events = << >> THEN step
    ELSE [frame |-> [step.frame EXCEPT
                         !.pc = "done",
                         !.console = SubSeq(@, 1, Len(@) - 1),
                         !.result = Thrown(error)],
          events |-> thrownIn(step.events,
                              Head(tableCreationFailed(step.frame, error).events))]

StoreRecord == <<[k |-> "note", v |-> Str("hello world")]>>

StoreContext == [userEmail |-> "amy@acme.co", department |-> "sales", role |-> "user"]

StoreTableOptions ==
    {o \in TableOptions :
        o.departmentLevel /\ (o.enableAuditLog <=> o.retentionDays # 0)}

StoreConnectArguments ==
    {a \in ConnectArguments : a.url = UrlA}

InitStore ==
    /\ Constructed
    /\ cryptoOk = TRUE
    /\ \E securityOptions \in StoreTableOptions :
           input = [record |-> StoreRecord, tableName |-> "orders",
                    fields |-> TableFields, securityOptions |-> securityOptions]
    /\ output = [createSecureTable |-> Pending, disconnect |-> Pending]

ConnectOnFailingStore ==
    /\ invocations < MaxOps
    /\ connecting.pc = "idle"
    /\ invocations' = invocations + 1
    /\ \E arguments \in StoreConnectArguments, error \in StoreErrors :
         LET url == arguments.url
             apiKey == arguments.apiKey
         IN
         IF ~isValidSupabaseUrl(url) \/ ~isValidApiKey(apiKey)
         THEN LET message == IF ~isValidSupabaseUrl(url)
                             THEN "Invalid Supabase URL format"
                             ELSE "Invalid API key format"
              IN  /\ auditLog' = pushed(<<connectionFailed(message)>>, currentUser)
                  /\ connecting' = connectRejected(connectFrame(url, apiKey), error)
                  /\ UNCHANGED <<connVars, requests>>
         ELSE /\ supabaseUrl' = url
              /\ supabaseKey' = apiKey
              /\ currentUser' = arguments.userContext
              /\ requests' = Append(requests, testRequest(url, apiKey))
              /\ connecting' = [connectFrame(url, apiKey) EXCEPT !.pc = "testConnection"]
              /\ UNCHANGED <<connected, encryptionKey, keysGenerated, auditLog>>
    /\ UNCHANGED <<storedLog, cryptoOk, calls, fnVars>>

TestConnectionOnFailingStore ==
    /\ connecting.pc = "testConnection"
    /\ \E outcome \in {"ok", "HTTP 401: Unauthorized"}, error \in StoreErrors :
         IF outcome = "ok"
         THEN /\ connected' = TRUE
              /\ connecting' = [connecting EXCEPT !.pc = "initializeEncryption"]
              /\ UNCHANGED auditLog
         ELSE /\ auditLog' = pushed(<<connectionFailed(outcome)>>, currentUser)
              /\ connecting' = connectRejected(connecting, error)
              /\ UNCHANGED connected
    /\ UNCHANGED <<supabaseUrl, supabaseKey, encryptionKey, currentUser,
                   keysGenerated, storedLog, cryptoOk, calls, requests, invocations,
                   fnVars>>

InitializedOnFailingStore ==
    /\ connecting.pc = "initializeEncryption"
    /\ initializeEncryption
    /\ \E error \in StoreErrors :
         /\ auditLog' = pushed(<<[event |-> "CONNECTION_SUCCESS",
                                  details |-> [url |-> connecting.url]],
                                 connectionFailed(error)>>, currentUser)
         /\ connecting' = connectRejected(connecting, error)
    /\ UNCHANGED <<connected, supabaseUrl, supabaseKey, currentUser, storedLog,
                   cryptoOk, calls, requests, invocations, fnVars>>

DisconnectOnFailingStore ==
    /\ invocations < MaxOps
    /\ invocations' = invocations + 1
    /\ connected' = FALSE
    /\ supabaseUrl' = ""
    /\ supabaseKey' = ""
    /\ encryptionKey' = 0
    /\ currentUser' = NoUser
    /\ auditLog' = pushed(<<[event |-> "DISCONNECTED", details |-> << >>]>>, NoUser)
    /\ \E error \in StoreErrors :
         output' = [output EXCEPT !.disconnect = Thrown(error)]
    /\ UNCHANGED <<keysGenerated, storedLog, cryptoOk, calls, requests, connecting,
                   input>>

SubmitOnFailingStore ==
    /\ invocations < MaxOps
    /\ invocations' = invocations + 1
    /\ \E error \in StoreErrors :
         LET step == submitRejected(
                         submitFrame(input.tableName, input.record, StoreContext,
                                     connected),
                         encryptionKey, error)
         IN  /\ calls' = Append(calls, stamped(step))
             /\ auditLog' = pushed(step.events, currentUser)
    /\ UNCHANGED <<connVars, storedLog, cryptoOk, requests, connecting, fnVars>>

CreateTableOnFailingStore ==
    /\ output.createSecureTable = Pending
    /\ invocations < MaxOps
    /\ invocations' = invocations + 1
    /\ \E error \in StoreErrors :
         LET step == tableRejected(
                         createSecureTable(
                             tableFrame(input.tableName, input.fields,
                                        input.securityOptions), connected),
                         error)
         IN  /\ output' = [output EXCEPT !.createSecureTable = step.frame]
             /\ auditLog' = pushed(step.events, currentUser)
    /\ UNCHANGED <<connVars, storedLog, cryptoOk, calls, requests, connecting, input>>

ExecuteSQLOnFailingStore ==
    /\ output.createSecureTable # Pending
    /\ output.createSecureTable.pc
           \in {"createTable", "policy", "auditTrigger", "retentionPolicy"}
    /\ \E ok \in BOOLEAN, error \in StoreErrors :
         LET step == tableRejected(executeSQLReturned(output.createSecureTable, ok),
                                   error)
         IN  /\ output' = [output EXCEPT !.createSecureTable = step.frame]
             /\ auditLog' = pushed(step.events, currentUser)
    /\ UNCHANGED <<connVars, storedLog, cryptoOk, calls, requests, connecting,
                   invocations, input>>

NextStore ==
    \/ ConnectOnFailingStore
    \/ TestConnectionOnFailingStore
    \/ InitializedOnFailingStore
    \/ DisconnectOnFailingStore
    \/ SubmitOnFailingStore
    \/ CreateTableOnFailingStore
    \/ ExecuteSQLOnFailingStore

SpecStore == InitStore /\ [][NextStore]_vars

\* C22: when the key-value store fails during logSecurityEvent, no call of
\* connectToSupabase, createSecureTable, submitSecureData or disconnect
\* throws or is rejected: each returns the result it returns with a working
\* store.
C22_LoggingNeverThrows ==
    /\ connecting.result.state # "thrown"
    /\ \A i \in 1..Len(calls) : calls[i].result.state # "thrown"
    /\ output.createSecureTable # Pending =>
           output.createSecureTable.result.state # "thrown"
    /\ output.disconnect.state # "thrown"

(***************************************************************************)
(* Properties of submitSecureData: degradation, requests                   *)
(***************************************************************************)
\* The events submitSecureData logs whether or not it degraded.
SubmissionEvents == {"VALIDATION_ATTEMPT", "DATA_SUBMITTED", "DATA_SUBMISSION_FAILED"}

\* The call sent the plaintext of a field under <field>_encrypted, or a record
\* digest that is no digest.
Degraded(i) ==
    \E j \in RequestsOf(i) :
        \/ \E n \in 1..Len(calls[i].transform.data) :
               /\ calls[i].transform.encrypts[n]
               /\ Get(requests[j].body, calls[i].transform.data[n].k \o "_encrypted")
                      = Str(toString(calls[i].transform.data[n].v))
        \/ Get(requests[j].body, "data_hash").t = "string"

\* C23: whenever a submission degrades to the plaintext fallback, an audit
\* entry that tells it from a submission that did not degrade is appended
\* during that submission.
C23_DegradationAudited ==
    \A i \in 1..Len(calls) :
        Degraded(i) /\ calls[i].pc = "done" =>
            \E n \in 1..Len(calls[i].emitted) :
                calls[i].emitted[n].event \notin SubmissionEvents

(***************************************************************************)
(* Properties of createSecureTable                                         *)
(***************************************************************************)
\* The call handed no statement to executeSQL.
NoSQL(f) ==
    /\ f.pc = "done"
    /\ f.executed = << >>
    /\ f.sql = << >>
    /\ \A n \in 1..Len(f.console) : f.console[n].text # "Executing SQL"

\* The statements after the first are preceded by the DDL of the table,
\* which executed successfully.
AfterDDL(f) ==
    /\ \A n \in 1..Len(f.executed) :
           f.executed[n].at = "createTable" <=> n = 1
    /\ f.executed # << >> /\ ~f.executed[1].response.success =>
           Len(f.executed) = 1 /\ f.pc = "done"
    /\ f.pc \in {"policy", "auditTrigger", "retentionPolicy"} =>
           f.executed # << >> /\ f.executed[1].response.success

C24_Guarded ==
    output # Pending =>
        /\ ~isValidTableName(output.tableName) => NoSQL(output)
        /\ AfterDDL(output)

\* C24: createSecureTable executes no SQL when the connector is not connected
\* at the call or the table name fails the identifier grammar, and executes
\* policy, audit-trigger and retention SQL only after the DDL of the table
\* executed successfully in the same call.
C24_NoSQLUnlessAdmitted ==
    /\ []C24_Guarded
    /\ [][output = Pending /\ output' # Pending /\ ~connected => NoSQL(output')]_vars
    /\ [][output # Pending /\ output.pc = "done" => output' = output]_vars

\* On a connected connector a call with a table name outside the grammar was
\* refused.
C24_Witness ==
    /\ output # Pending
    /\ connected
    /\ ~isValidTableName(output.tableName)
    /\ output.pc = "done"
    /\ ~output.result.value.success

(***************************************************************************)
(* Properties of connectToSupabase                                         *)
(***************************************************************************)
\* No call of connectToSupabase is going on and none has succeeded.
OnlyFailedConnects ==
    /\ connecting.pc = "idle"
    /\ \A n \in 1..Len(auditLog) : auditLog[n].event # "CONNECTION_SUCCESS"

\* C25: a connectToSupabase call that returns success false leaves connected,
\* the endpoint URL, the API key, the current user and the cipher key as they
\* were before the call; so while no call has succeeded, they are as the
\* constructor and disconnect leave them.
C25_FailedConnectLeavesState ==
    OnlyFailedConnects =>
        /\ connected = FALSE
        /\ supabaseUrl = ""
        /\ supabaseKey = ""
        /\ currentUser = NoUser
        /\ encryptionKey = 0

\* C26: every request issued by submitSecureData goes to the endpoint URL,
\* carries the API key and uses the hash salt that were current when the call
\* passed its connected check, also when disconnect or connectToSupabase ran
\* while the call was suspended.
C26_RequestToEndpointOfCheck ==
    \A j \in 1..Len(requests) :
        requests[j].op = "submitSecureData" =>
            LET c == calls[requests[j].call]
            IN  /\ requests[j].url = c.checked.url \o "/rest/v1/" \o c.tableName
                /\ requests[j].apikey = c.checked.apiKey
                /\ c.saltUrl = c.checked.url

(***************************************************************************)
(* Properties of generateSecureTableSchema: the column list                *)
(***************************************************************************)
\* The column definitions of the CREATE TABLE statement: the lines between
\* its opening line and the line that closes it.
ColumnDefinitions(lines) ==
    LET close == CHOOSE n \in 1..Len(lines) :
                     /\ lines[n] = ");"
                     /\ \A m \in 1..(n - 1) : lines[m] # ");"
    IN  SubSeq(lines, 3, close - 1)

\* C28: for every field list, the empty one included, and every option set,
\* each column definition of the generated CREATE TABLE statement except the
\* last is followed by a comma and the last is not.
C28_CommasBetweenColumns ==
    output.state = "returned" =>
        LET columns == ColumnDefinitions(output.value.createTable)
        IN  \A n \in 1..Len(columns) :
                EndsWith(columns[n], ",") <=> n < Len(columns)

(***************************************************************************)
(* Properties of createSecureTable: what the later statements refer to     *)
(***************************************************************************)
\* The tables and the columns of the fixed part that the statements of a
\* call can name.
TablesOf(tableName) == {tableName, tableName \o "_audit", tableName \o "_archive"}

ReferredColumns == {"created_by", "created_at", "updated_at", "department", "audit_log"}

\* The statement names the table (quoted), names the column.
RefersToTable(sql, name) ==
    \E n \in 1..Len(sql) : Contains(sql[n], "\"" \o name \o "\"")

RefersToColumn(sql, name) ==
    \E n \in 1..Len(sql) :
        \/ Contains(sql[n], " " \o name \o " ")
        \/ Contains(sql[n], "(" \o name \o " ")
        \/ Contains(sql[n], "." \o name \o " ")
        \/ EndsWith(sql[n], " " \o name)
        \/ StartsWith(sql[n], name \o " ")

\* The DDL creates the table.
DefinesTable(ddl, name) ==
    \E n \in 1..Len(ddl) : ddl[n] = "CREATE TABLE IF NOT EXISTS \"" \o name \o "\" ("

\* C29: every column and table referred to by a statement that
\* createSecureTable executes after the DDL (the access policies, the audit
\* trigger, the retention routine) is defined by the DDL of the same call.
C29_ReferencesDefined ==
    output # Pending =>
        \A n \in 2..Len(output.executed) :
            LET ddl == output.executed[1].sql
                sql == output.executed[n].sql
            IN  /\ \A name \in TablesOf(output.tableName) :
                       RefersToTable(sql, name) => DefinesTable(ddl, name)
                /\ \A name \in ReferredColumns :
                       RefersToColumn(sql, name) => DefinesColumn(ddl, name)

\* The statements after the DDL refer to the table of the call and to its
\* created_by column, which the DDL defines.
OwnTableReferred ==
    output # Pending =>
        \A n \in 2..Len(output.executed) :
            /\ RefersToTable(output.executed[n].sql, output.tableName)
            /\ DefinesTable(output.executed[1].sql, output.tableName)
            /\ output.executed[n].at = "policy" /\ n # 5 =>
                   /\ RefersToColumn(output.executed[n].sql, "created_by")
                   /\ DefinesColumn(output.executed[1].sql, "created_by")

(***************************************************************************)
(* The schema generator against the submission pipeline                    *)
(***************************************************************************)
FieldLabels == {"", "Home Address"}

\* A field list for the record: one text field for each key, all with the
\* same label.
FieldsOf(record, label) ==
    [n \in 1..Len(record) |->
        [name |-> record[n].k, label |-> label, type |-> "text", required |-> FALSE]]

\* The CREATE TABLE text for the records of the page, each option set and
\* each label.
RecordSchema ==
    [r \in Records |->
        [o \in SchemaOptions |->
            [l \in FieldLabels |->
                generateSecureTableSchema("orders", FieldsOf(r, l), o).createTable]]]

\* C27: for every field list and every record over those fields, each key of
\* the record transmitted by submitSecureData is a column of the table that
\* generateSecureTableSchema defines for that field list and options.
C27_KeysAreColumns ==
    \A j \in 1..Len(requests) :
        requests[j].op = "submitSecureData" =>
            \A o \in SchemaOptions, l \in FieldLabels :
                \A n \in 1..Len(requests[j].body) :
                    DefinesColumn(RecordSchema[calls[requests[j].call].formData][o][l],
                                  requests[j].body[n].k)

(***************************************************************************)
(* Specification of the connector on a page where key generation and       *)
(* encryption work and crypto.subtle.digest may reject: the page connects  *)
(* and submits, and each call of hash succeeds or falls back.              *)
(***************************************************************************)
\* encrypt returned: the token is stored and hash is called (url:
\* this.supabaseUrl); ok: encryption works, digestOk: the digest works.
afterEncryptWithDigest(f, url, ok, digestOk) ==
    LET entry == f.data[f.idx]
    IN  [f EXCEPT !.encryptedData =
                      Put(@, entry.k \o "_encrypted", encrypt(toString(entry.v), f.key, ok)),
                  !.pc = "hash",
                  !.pending = hash(toString(entry.v), url, digestOk)]

\* The records of the page that have the field email.
DigestRecords == {r \in Records : HasKey(r, "email")}

InitDigest ==
    /\ Constructed
    /\ cryptoOk = TRUE
    /\ input \in DigestRecords
    /\ output = Pending

DigestEncrypt(i) ==
    /\ InEncrypt(i, "encrypt")
    /\ \E digestOk \in BOOLEAN :
         calls' = [calls EXCEPT ![i].transform =
                       afterEncryptWithDigest(@, supabaseUrl, cryptoOk, digestOk)]
    /\ UNCHANGED <<connVars, logVars, cryptoOk, requests, connecting, invocations,
                   fnVars>>

DigestEncrypted(i) ==
    /\ InEncrypt(i, "returned")
    /\ \E digestOk \in BOOLEAN :
         calls' = [calls EXCEPT ![i] = afterEncryptSensitiveData(@, supabaseUrl, digestOk)]
    /\ UNCHANGED <<connVars, logVars, cryptoOk, requests, connecting, invocations,
                   fnVars>>

NextDigest ==
    \/ ConnectToSupabase
    \/ TestConnectionReturns
    \/ ConnectionInitialized
    \/ SubmitSecureData
    \/ \E i \in 1..Len(calls) :
         \/ SubmitInitializeEncryption(i)
         \/ DigestEncrypt(i)
         \/ SubmitHash(i)
         \/ DigestEncrypted(i)
         \/ SubmitFetch(i)
         \/ SubmitResponse(i)
         \/ SubmitJson(i)

SpecDigest == InitDigest /\ [][NextDigest]_vars

\* The value holds the text as it is.
HoldsText(val, text) == val.t = "string" /\ Contains(val.v, text)

\* C30: in every record transmitted by submitSecureData, the plaintext of a
\* sensitive non-empty field whose encryption succeeded appears in no value
\* of the record, whether or not the hashing primitive is available.
C30_NoPlaintextOfEncrypted ==
    \A j \in 1..Len(requests) :
        requests[j].op = "submitSecureData" =>
            LET data == calls[requests[j].call].transform.data
                encrypts == calls[requests[j].call].transform.encrypts
                body == requests[j].body
            IN  \A n \in 1..Len(data) :
                    /\ encrypts[n]
                    /\ Get(body, data[n].k \o "_encrypted").t = "aesgcm"
                    => \A m \in 1..Len(body) :
                           ~HoldsText(body[m].v, toString(data[n].v))

====
